---- MODULE Spec2Model ----
(***************************************************************************)
(* Model of the orchestration core of supplemental-pay-agent:              *)
(*   - the run executor  (AzureAgentOrchestrator._run_agent and            *)
(*     _run_agent_via_sdk, src/src/orchestration/azure_agent_orchestrator) *)
(*   - the agent registry (AzureAgentDefinitions.get_existing_agents,      *)
(*     deploy_agents, save/load_agent_ids, azure_agent_definitions.py)     *)
(*   - the query router (IntelligentOrchestratorAgent.analyze_query and    *)
(*     its cache key, azure_agent_orchestrator.py)                         *)
(*   - route_request (AzureAgentOrchestrator.route_request)                *)
(* Each part has its own specification (SpecRun, SpecDeploy, SpecRouter,   *)
(* SpecRouting, SpecRoute); SpecHandlers and SpecTwoDeploy have two        *)
(* request threads on the shared cache and registry, SpecPersist has the   *)
(* registry file alone, SpecEarlierFile the first deploy_agents call on a  *)
(* file an earlier deployment left, SpecNearlyFull the router on a cache   *)
(* of 99 or 100 entries, SpecNormalize _normalize_agent_name alone,        *)
(* SpecConfidence the router on classifier replies of every confidence,    *)
(* SpecRunFair the run executor with its steps taken when they can be,     *)
(* SpecSameKey two request threads that analyse the same query.  The       *)
(* variables of the parts a specification does not move stay as Init left  *)
(* them.                                                                   *)
(***************************************************************************)
EXTENDS Integers, Sequences, FiniteSets, TLC

VARIABLES
    \* ---- run executor ----
    project_client,   \* TRUE iff self.project_client is not None
    pc,               \* position of the one cooperative task inside run
    variant,          \* "_run_agent" | "_run_agent_via_sdk"
    thread_id,        \* local thread_id (0: not bound yet)
    run_id,           \* run.id (0: no run created yet)
    retry_count,      \* local retry_count
    retry_delay,      \* local retry_delay
    current_status,   \* local current_status: the status of the last get_run ("": none)
    raised,           \* TRUE iff a remote call of the invocation raised
    sleeps,           \* the delays passed to asyncio.sleep, in order
    calls,            \* remote calls issued by the current invocation, in order
    response,         \* the dict returned by the invocation
    thread_msgs,      \* remote: messages of the current thread, oldest first
    remote_thread,    \* remote: id of the thread holding thread_msgs (0: none yet)
    invocations,      \* number of invocations started
    \* ---- agent registry ----
    agent_ids_file,   \* AGENT_IDS_FILE: [exists, data]; data is the file's JSON text
    remote_agents,    \* remote: the agents of the service, records [id, name]
    next_agent,       \* remote: last agent id handed out
    dpc,              \* position of the task inside deploy_agents
    agent_ids,        \* local agent_ids of get_existing_agents / deploy_agents
    loaded,           \* what load_agent_ids returned to the current call
    validated,        \* the keys of loaded whose get_agent call succeeded
    dcalls,           \* remote calls issued by the current call, in order
    dresult,          \* the dict the call returned
    deploys,          \* number of deploy_agents calls started
    prev_result,      \* what the previous call returned (<<>> if it raised or none)
    orch_agent_ids,   \* AzureAgentOrchestrator.agent_ids
    \* ---- query router ----
    query_cache,      \* self.query_cache: a dict, oldest entry first, of [key, value]
    apc,              \* position of the task inside analyze_query
    query,            \* the argument of the current analyze_query call
    cache_key,        \* local cache_key
    routing_info,     \* the dict the call returns
    invoked,          \* TRUE iff the call invoked the classifier (kernel.invoke)
    analyses,         \* the calls that returned, in order: [query, routing_info, invoked]
    \* ---- route_request ----
    rpc,              \* position of the task inside route_request
    role_arg,         \* the role argument of the current route_request call
    route_base,       \* number of analyze_query calls that had returned when the call began
    route_info,       \* local routing_info
    agent_type,       \* local agent_type
    agent_id,         \* local agent_id (0: None)
    route_calls,      \* calls the current route_request made on the agent service, in order
    route_response,   \* the dict route_request returned
    \* ---- request handler threads inside analyze_query's store-and-evict step ----
    hpc,              \* per handler thread: its position in lines 279-280 and _manage_cache_size
    first_key,        \* per handler thread: the value of next(iter(self.query_cache))
    remaining,        \* per handler thread: iterations of range(items_to_remove) left
    removed,          \* per handler thread: entries its pop calls removed
    \* ---- the run executor's disable_tools argument ----
    disable_tools,    \* the argument of the invocation in progress (FALSE at rest)
    created_runs,     \* the create_run calls the service got, each with the argument
                      \* of its invocation and the parameters it was called with
    \* ---- _normalize_agent_name on its own ----
    npc,              \* "rest" | "given" | "once" | "twice": how often it was applied
    given_name,       \* the name it is called with
    normalized_once,  \* what it returned for the name
    normalized_twice, \* what it returned for that result
    \* ---- a second request handler that deploys ----
    other_pc,         \* "idle" | "deploying" (it found self.agent_ids empty) | "done"
    other_result      \* the mapping its deploy_agents returned (<<>>: raised or none)

runVars == <<project_client, pc, variant, thread_id, run_id, retry_count,
             retry_delay, current_status, raised, sleeps, calls, response, thread_msgs,
             remote_thread, invocations>>

regVars == <<agent_ids_file, remote_agents, next_agent, dpc, agent_ids, loaded,
             validated, dcalls, dresult, deploys, prev_result, orch_agent_ids>>

routerVars == <<query_cache, apc, query, cache_key, routing_info, invoked, analyses>>

routeVars == <<rpc, role_arg, route_base, route_info, agent_type, agent_id, route_calls,
               route_response>>

handlerVars == <<hpc, first_key, remaining, removed>>

otherVars == <<other_pc, other_result>>

toolVars == <<disable_tools, created_runs>>

normVars == <<npc, given_name, normalized_once, normalized_twice>>

vars == <<runVars, regVars, routerVars, routeVars, handlerVars, otherVars, toolVars,
          normVars>>

\* what an action of one part leaves alone: every other part
otherParts == <<regVars, routerVars, routeVars, handlerVars, otherVars, normVars>>
notRunVars == <<otherParts, toolVars>>
notRegVars == <<runVars, routerVars, routeVars, handlerVars, otherVars, toolVars, normVars>>
notRouterVars == <<runVars, regVars, routeVars, handlerVars, otherVars, toolVars, normVars>>
notRouteVars == <<runVars, routerVars, handlerVars, otherVars, toolVars, normVars>>

\* ------------------------------------------------------------------ bounds
MaxInvocations == 2   \* invocations of run per behaviour
MaxReplies     == 2   \* assistant messages a thread can hold
MaxTime        == 2   \* created_at ranges over 1..MaxTime
MaxAgents      == 4   \* agents the service creates per behaviour
MaxDeploys     == 2   \* deploy_agents calls per behaviour
MaxAnalyses    == 2   \* analyze_query calls per behaviour
MaxHandlers    == 2   \* request handler threads inside analyze_query at once
MaxFileOps     == 3   \* save_agent_ids / load_agent_ids calls per behaviour
MaxEntries     == 2   \* entries of a mapping passed to save_agent_ids

\* ------------------------------------------------------- program constants
max_retries == 15     \* max_retries = 15
InitialDelay == 1     \* retry_delay = 1
DelayCap == 30        \* min(retry_delay * 2, 30)

Min(a, b) == IF a <= b THEN a ELSE b

\* ------------------------------------------------------------ remote data
\* The code tests a status only for membership in {completed} and in {failed,
\* cancelled, expired}; "in_progress" stands for every other status string
\* (queued, in_progress, requires_action, cancelling, ...).
NonTerminal == {"in_progress"}
FailureStatuses == {"failed", "cancelled", "expired"}
Statuses == NonTerminal \cup FailureStatuses \cup {"completed"}

\* A content part is a record; hasattr(part, "text") is "text" \in DOMAIN part.
TextPart(v) == [text |-> [value |-> v]]
ImagePart == [image_file |-> [file_id |-> "f"]]
Contents == { <<>>, <<ImagePart, TextPart("a")>>, <<TextPart("b"), TextPart("a")>> }
Message(r, t, c) == [role |-> r, created_at |-> t, content |-> c]
\* an assistant message carries the id of the run that wrote it
RunMessage(rid, t, c) == [role |-> "assistant", created_at |-> t, content |-> c, run_id |-> rid]
UserContent == <<TextPart("q")>>
LastTime(msgs) == IF msgs = <<>> THEN 1 ELSE msgs[Len(msgs)].created_at
ExcText == "transport error"      \* str(e) of a raised remote-call exception

Reverse(s) == [i \in 1..Len(s) |-> s[Len(s) + 1 - i]]

\* ------------------------------------------------ run executor: operators
\* error_msg values: the f-string's fixed text, the run id and status it embeds,
\* and the exception text it embeds ("" / 0 where the f-string has no such hole)
ErrMsg(template, rid, status, detail) ==
    [template |-> template, run_id |-> rid, status |-> status, detail |-> detail]

\* retry_delay = min(retry_delay * 2, 30)
NextDelayUncapped(d) == d * 2
NextDelayCappedLate(d) == Min(d * 2, 2 * DelayCap)
NextDelay(d) == Min(d * 2, DelayCap)

\* if self.project_client is None: return {"error": ..., ["thread_id": thread_id]}
NotInitializedResponse(v, tid) ==
    IF v = "_run_agent"
    THEN [error |-> ErrMsg("AIProjectClient not initialized", 0, "", ""), thread_id |-> tid]
    ELSE [error |-> ErrMsg("AIProjectClient not initialized", 0, "", "")]

\* except Exception as e: the handler of each variant
ExceptResponse(v, tid) ==
    IF v = "_run_agent"
    THEN [error |-> ErrMsg("Error running agent: {e}", 0, "", ExcText), thread_id |-> tid]
    ELSE [error |-> ErrMsg("Error in SDK-based agent run: {e}", 0, "", ExcText)]

TerminalFailureResponseNoRun(tid, rid, status) ==
    [error |-> ErrMsg("Run {run.id} ended with status: {current_status}", rid, status, ""),
     thread_id |-> tid]
\* elif current_status in ["failed", "cancelled", "expired"]: ... return {...}
TerminalFailureResponse(tid, rid, status) ==
    [error |-> ErrMsg("Run {run.id} ended with status: {current_status}", rid, status, ""),
     thread_id |-> tid, run_id |-> rid]

\* if retry_count >= max_retries: ... return {...}
MaxRetriesResponse(tid, rid) ==
    [error |-> ErrMsg("Maximum retries reached waiting for run {run.id} to complete", rid, "", ""),
     thread_id |-> tid, run_id |-> rid]

\* [msg for msg in messages.data if msg.role == "assistant" and hasattr(msg, "created_at")]
\* (every message of the remote conversation API carries created_at)
AssistantMessages(data) == SelectSeq(data, LAMBDA m : m.role = "assistant")

\* assistant_messages.sort(key=lambda msg: msg.created_at, reverse=True):
\* a stable sort, newest first; equal keys keep their listed order
InsertOldestFirst(sorted, m) ==
    LET k == Cardinality({i \in 1..Len(sorted) : sorted[i].created_at <= m.created_at})
    IN SubSeq(sorted, 1, k) \o <<m>> \o SubSeq(sorted, k + 1, Len(sorted))
InsertNewestFirst(sorted, m) ==
    LET k == Cardinality({i \in 1..Len(sorted) : sorted[i].created_at >= m.created_at})
    IN SubSeq(sorted, 1, k) \o <<m>> \o SubSeq(sorted, k + 1, Len(sorted))
RECURSIVE SortNewestFirst(_)
SortNewestFirst(msgs) ==
    IF msgs = <<>> THEN <<>>
    ELSE InsertNewestFirst(SortNewestFirst(SubSeq(msgs, 1, Len(msgs) - 1)), msgs[Len(msgs)])

\* hasattr(content_part, "text") and hasattr(content_part.text, "value")
HasTextValue(part) == "text" \in DOMAIN part /\ "value" \in DOMAIN part.text
TextIndexes(content) == {i \in 1..Len(content) : HasTextValue(content[i])}
MinOf(S) == CHOOSE x \in S : \A y \in S : x <= y

\* for content_part in last_message.content: if ...: return {"result": ...}
FirstTextIndex(content) == MinOf(TextIndexes(content))

EmptySuccessResponse(tid, rid) == [result |-> "", thread_id |-> tid, run_id |-> rid]
\* error_msg = "No assistant messages found in thread or message format not recognized"
NoAssistantResponse(tid, rid) ==
    [error |-> ErrMsg("No assistant messages found in thread or message format not recognized",
                      0, "", ""),
     thread_id |-> tid, run_id |-> rid]

\* the code after list_messages: filter, sort, take [0], first text part, else error
ExtractResponse(data, tid, rid) ==
    LET assistant_messages == SortNewestFirst(AssistantMessages(data)) IN
    IF data # <<>> /\ assistant_messages # <<>>
       /\ TextIndexes(assistant_messages[1].content) # {}
    THEN LET last_message == assistant_messages[1] IN
         [result |-> last_message.content[FirstTextIndex(last_message.content)].text.value,
          thread_id |-> tid, run_id |-> rid]
    ELSE NoAssistantResponse(tid, rid)

\* -------------------------------------------------- run executor: actions
NoResponse == [pending |-> TRUE]

\* The service hands out a fresh id for every thread and run it creates: the
\* thread and the run created for the n-th invocation get the id n.
NewId == invocations

RunAtRest ==
    /\ pc = "idle"
    /\ variant = "_run_agent"
    /\ thread_id = 0
    /\ run_id = 0
    /\ retry_count = 0
    /\ retry_delay = InitialDelay
    /\ current_status = ""
    /\ raised = FALSE
    /\ sleeps = <<>>
    /\ calls = <<>>
    /\ response = NoResponse
    /\ thread_msgs = <<>>
    /\ remote_thread = 0
    /\ invocations = 0
    /\ disable_tools = FALSE
    /\ created_runs = <<>>

RegistryAtRest ==
    /\ agent_ids_file = [exists |-> FALSE, data |-> <<>>]
    /\ remote_agents = {}
    /\ next_agent = 0
    /\ dpc = "idle"
    /\ agent_ids = <<>>
    /\ loaded = <<>>
    /\ validated = {}
    /\ dcalls = <<>>
    /\ dresult = <<>>
    /\ deploys = 0
    /\ prev_result = <<>>
    /\ orch_agent_ids = <<>>

\* the value of routing_info while no call has produced one
NoRoutingInfo == [none |-> TRUE]
None == "None"    \* Python's None as an argument or a local

\* the orchestrator before any route_request call
RouteAtRest ==
    /\ rpc = "idle"
    /\ role_arg = None
    /\ route_base = 0
    /\ route_info = NoRoutingInfo
    /\ agent_type = <<>>
    /\ agent_id = 0
    /\ route_calls = <<>>
    /\ route_response = NoResponse

\* no request handler thread is inside the store-and-evict step
Handlers == 1..MaxHandlers
HandlersAtRest ==
    /\ hpc = [h \in Handlers |-> "idle"]
    /\ first_key = [h \in Handlers |-> <<>>]
    /\ remaining = [h \in Handlers |-> 0]
    /\ removed = [h \in Handlers |-> 0]
    /\ other_pc = "idle"
    /\ other_result = <<>>

\* the router after __init__: an empty cache, no call running
RouterAtRest ==
    /\ query_cache = <<>>
    /\ apc = "idle"
    /\ query = <<>>
    /\ cache_key = <<>>
    /\ routing_info = NoRoutingInfo
    /\ invoked = FALSE
    /\ analyses = <<>>

\* _normalize_agent_name is not being looked at on its own
NormalizeAtRest ==
    /\ npc = "rest"
    /\ given_name = <<>>
    /\ normalized_once = <<>>
    /\ normalized_twice = <<>>

InitRun ==
    /\ project_client \in BOOLEAN
    /\ RunAtRest /\ NormalizeAtRest
    /\ RegistryAtRest
    /\ RouterAtRest
    /\ RouteAtRest
    /\ HandlersAtRest

Return(resp) ==
    /\ response' = resp
    /\ pc' = "returned"

\* the except clause around the whole body
Raise ==
    /\ raised' = TRUE
    /\ Return(ExceptResponse(variant, thread_id))

\* A caller enters _run_agent(thread_id, ...) with a thread it created just now
\* (route_request) or with the thread of an earlier invocation.
Invoke_run_agent ==
    /\ pc = "idle"
    /\ invocations < MaxInvocations
    /\ invocations' = invocations + 1
    /\ variant' = "_run_agent"
    /\ \E fresh \in BOOLEAN :
         IF fresh \/ remote_thread = 0
         THEN /\ remote_thread' = invocations + 1
              /\ thread_id' = invocations + 1
              /\ thread_msgs' = <<>>
         ELSE /\ thread_id' = remote_thread
              /\ UNCHANGED <<remote_thread, thread_msgs>>
    /\ run_id' = 0
    /\ retry_count' = 0
    /\ retry_delay' = InitialDelay
    /\ current_status' = ""
    /\ raised' = FALSE
    /\ sleeps' = <<>>
    /\ calls' = <<>>
    /\ IF project_client
       THEN /\ pc' = "create_message"
            /\ response' = NoResponse
       ELSE Return(NotInitializedResponse("_run_agent", thread_id'))
    /\ disable_tools' \in BOOLEAN
    /\ UNCHANGED <<project_client, created_runs, otherParts>>

Invoke_run_agent_via_sdk ==
    /\ pc = "idle"
    /\ invocations < MaxInvocations
    /\ invocations' = invocations + 1
    /\ variant' = "_run_agent_via_sdk"
    /\ thread_id' = 0
    /\ run_id' = 0
    /\ retry_count' = 0
    /\ retry_delay' = InitialDelay
    /\ current_status' = ""
    /\ raised' = FALSE
    /\ sleeps' = <<>>
    /\ calls' = <<>>
    /\ IF project_client
       THEN /\ pc' = "create_thread"
            /\ response' = NoResponse
       ELSE Return(NotInitializedResponse("_run_agent_via_sdk", 0))
    /\ disable_tools' \in BOOLEAN
    /\ UNCHANGED <<project_client, thread_msgs, remote_thread, created_runs, otherParts>>

\* thread = self.project_client.agents.create_thread()
CreateThread ==
    /\ pc = "create_thread"
    /\ calls' = Append(calls, "create_thread")
    /\ \E ok \in BOOLEAN :
         IF ok
         THEN /\ remote_thread' = NewId
              /\ thread_id' = NewId
              /\ thread_msgs' = <<>>
              /\ pc' = "create_message"
              /\ UNCHANGED <<response, raised>>
         ELSE /\ Raise
              /\ UNCHANGED <<remote_thread, thread_id, thread_msgs>>
    /\ UNCHANGED <<project_client, variant, run_id, retry_count, retry_delay,
                   current_status, sleeps, invocations, notRunVars>>

\* (a variant that goes on to create_run when create_message raised)
CreateMessage_failure_ignored ==
    /\ pc = "create_message"
    /\ calls' = Append(calls, "create_message")
    /\ \E ok \in BOOLEAN :
         /\ IF ok
            THEN \E t \in LastTime(thread_msgs)..MaxTime :
                    thread_msgs' = Append(thread_msgs, Message("user", t, UserContent))
            ELSE UNCHANGED thread_msgs
         /\ pc' = "create_run"
         /\ UNCHANGED <<response, raised>>
    /\ UNCHANGED <<project_client, variant, thread_id, run_id, retry_count,
                   retry_delay, current_status, sleeps, remote_thread, invocations, notRunVars>>
\* self.project_client.agents.create_message(thread_id, role="user", content)
CreateMessage ==
    /\ pc = "create_message"
    /\ calls' = Append(calls, "create_message")
    /\ \E ok \in BOOLEAN :
         IF ok
         THEN /\ \E t \in LastTime(thread_msgs)..MaxTime :
                   thread_msgs' = Append(thread_msgs, Message("user", t, UserContent))
              /\ pc' = "create_run"
              /\ UNCHANGED <<response, raised>>
         ELSE /\ Raise
              /\ UNCHANGED thread_msgs
    /\ UNCHANGED <<project_client, variant, thread_id, run_id, retry_count,
                   retry_delay, current_status, sleeps, remote_thread, invocations, notRunVars>>

\* run_params = {"thread_id": ..., "agent_id": ...};  if disable_tools:
\* run_params["tool_choice"] = "none"  (agent_id is passed through as it came)
run_params_once_suppressed(tid, disable) ==
    IF disable \/ \E i \in 1..Len(created_runs) : "tool_choice" \in DOMAIN created_runs[i].run_params
    THEN [thread_id |-> tid, tool_choice |-> "none"]
    ELSE [thread_id |-> tid]
run_params(tid, disable) ==
    IF disable THEN [thread_id |-> tid, tool_choice |-> "none"] ELSE [thread_id |-> tid]

\* run = self.project_client.agents.create_run(**run_params)
CreateRun ==
    /\ pc = "create_run"
    /\ calls' = Append(calls, IF "tool_choice" \in DOMAIN run_params(thread_id, disable_tools)
                              THEN "create_run tool_choice=none" ELSE "create_run")
    /\ created_runs' = Append(created_runs,
                              [disable_tools |-> disable_tools,
                               run_params |-> run_params(thread_id, disable_tools)])
    /\ \E ok \in BOOLEAN :
         IF ok
         THEN /\ run_id' = NewId
              /\ pc' = "poll"
              /\ UNCHANGED <<response, raised>>
         ELSE /\ Raise
              /\ UNCHANGED run_id
    /\ UNCHANGED <<project_client, variant, thread_id, retry_count, retry_delay,
                   current_status, sleeps, thread_msgs, remote_thread, invocations,
                   disable_tools, otherParts>>

\* one iteration of  while retry_count < max_retries:  get_run, then break,
\* return, raise, or sleep and count
Poll ==
    /\ pc = "poll"
    /\ retry_count < max_retries
    /\ \E outcome \in Statuses \cup {"raise"} :
         CASE outcome = "raise" ->
                /\ calls' = Append(calls, "get_run")
                /\ Raise
                /\ UNCHANGED <<retry_count, retry_delay, sleeps, current_status>>
           [] outcome = "completed" ->
                /\ calls' = Append(calls, "get_run")
                /\ current_status' = outcome
                /\ pc' = "list_messages"
                /\ UNCHANGED <<response, raised, retry_count, retry_delay, sleeps>>
           [] outcome \in FailureStatuses ->
                \* list_run_steps is tried for the log; its own failure is swallowed
                /\ calls' = calls \o <<"get_run", "list_run_steps">>
                /\ current_status' = outcome
                /\ Return(TerminalFailureResponse(thread_id, run_id, outcome))
                /\ UNCHANGED <<raised, retry_count, retry_delay, sleeps>>
           [] OTHER ->
                /\ calls' = Append(calls, "get_run")
                /\ current_status' = outcome
                /\ sleeps' = Append(sleeps, retry_delay)
                /\ retry_delay' = NextDelay(retry_delay)
                /\ retry_count' = retry_count + 1
                /\ UNCHANGED <<pc, response, raised>>
    /\ UNCHANGED <<project_client, variant, thread_id, run_id, thread_msgs,
                   remote_thread, invocations, notRunVars>>

\* (a variant that fetches the status once more after the last wait)
MaxRetries_refetching ==
    /\ pc = "poll"
    /\ retry_count >= max_retries
    /\ calls' = Append(calls, "get_run")
    /\ \E done \in BOOLEAN :
         IF done
         THEN /\ current_status' = "completed"
              /\ pc' = "list_messages"
              /\ UNCHANGED response
         ELSE /\ current_status' = "in_progress"
              /\ Return(MaxRetriesResponse(thread_id, run_id))
    /\ UNCHANGED <<project_client, variant, thread_id, run_id, retry_count, retry_delay,
                   raised, sleeps, thread_msgs, remote_thread, invocations, notRunVars>>
\* (a variant that reads the thread when the retries are used up)
MaxRetries_then_list ==
    /\ pc = "poll"
    /\ retry_count >= max_retries
    /\ pc' = "list_messages"
    /\ UNCHANGED <<project_client, variant, thread_id, run_id, retry_count, retry_delay,
                   current_status, raised, sleeps, calls, response, thread_msgs, remote_thread,
                   invocations, notRunVars>>
\* if retry_count >= max_retries: return {"error": "Maximum retries reached ..."}
MaxRetries ==
    /\ pc = "poll"
    /\ retry_count >= max_retries
    /\ Return(MaxRetriesResponse(thread_id, run_id))
    /\ UNCHANGED <<project_client, variant, thread_id, run_id, retry_count, retry_delay,
                   current_status, raised, sleeps, calls, thread_msgs, remote_thread, invocations, notRunVars>>

\* messages = self.project_client.agents.list_messages(thread_id); the service
\* lists the thread newest first or oldest first
ListMessages ==
    /\ pc = "list_messages"
    /\ calls' = Append(calls, "list_messages")
    /\ \E outcome \in {"asc", "desc", "raise"} :
         CASE outcome = "raise" -> Raise
           [] outcome = "asc"   -> /\ Return(ExtractResponse(thread_msgs, thread_id, run_id))
                                   /\ UNCHANGED raised
           [] outcome = "desc"  -> /\ Return(ExtractResponse(Reverse(thread_msgs), thread_id, run_id))
                                   /\ UNCHANGED raised
    /\ UNCHANGED <<project_client, variant, thread_id, run_id, retry_count, retry_delay,
                   current_status, sleeps, thread_msgs, remote_thread, invocations, notRunVars>>

\* the caller has the response; the invocation's locals are gone
Returned ==
    /\ pc = "returned"
    /\ pc' = "idle"
    /\ variant' = "_run_agent"
    /\ thread_id' = 0
    /\ run_id' = 0
    /\ retry_count' = 0
    /\ retry_delay' = InitialDelay
    /\ current_status' = ""
    /\ raised' = FALSE
    /\ sleeps' = <<>>
    /\ calls' = <<>>
    /\ response' = NoResponse
    /\ disable_tools' = FALSE
    /\ UNCHANGED <<project_client, thread_msgs, remote_thread, invocations, created_runs,
                   otherParts>>

\* remote: the agent writes assistant messages while the run is in progress. The
\* executor does not read the thread before list_messages, so every such write
\* commutes with the polling steps and is placed right before that read.
AgentReply ==
    /\ pc = "list_messages"
    /\ Len(AssistantMessages(thread_msgs)) < MaxReplies
    /\ \E c \in Contents, t \in LastTime(thread_msgs)..MaxTime :
         thread_msgs' = Append(thread_msgs, RunMessage(run_id, t, c))
    /\ UNCHANGED <<project_client, pc, variant, thread_id, run_id, retry_count,
                   retry_delay, current_status, raised, sleeps, calls, response,
                   remote_thread, invocations, notRunVars>>

NextRun ==
    \/ Invoke_run_agent
    \/ Invoke_run_agent_via_sdk
    \/ CreateThread
    \/ CreateMessage
    \/ CreateRun
    \/ Poll
    \/ MaxRetries
    \/ ListMessages
    \/ Returned
    \/ AgentReply

SpecRun == InitRun /\ [][NextRun]_vars

\* ------------------------------------------------- claims: run executor
GetRunCalls == Cardinality({i \in 1..Len(calls) : calls[i] = "get_run"})
CallsOf(op) == {i \in 1..Len(calls) : calls[i] = op}
ExpectedWaits == <<1, 2, 4, 8, 16, 30, 30, 30, 30, 30, 30, 30, 30, 30, 30>>
RemoteFailureTemplate == "Run {run.id} ended with status: {current_status}"
MaxRetriesTemplate == "Maximum retries reached waiting for run {run.id} to complete"
ExceptionTemplates == {"Error running agent: {e}", "Error in SDK-based agent run: {e}"}

\* C1: a run whose every fetched status is non-terminal makes exactly 15 status
\* fetches with the waits 1, 2, 4, 8, 16, 30, ..., 30 and then returns (never
\* raises) the 'maximum retries reached' error with thread_id and run_id, a
\* message no remote-failure result carries; this holds in both variants.
C1_BackoffBound ==
    /\ pc = "poll" =>
         /\ retry_count <= 15
         /\ GetRunCalls = retry_count
         /\ sleeps = SubSeq(ExpectedWaits, 1, retry_count)
         /\ retry_count = 15 => ENABLED MaxRetries /\ ~ENABLED Poll
    /\ (pc = "returned" /\ Len(sleeps) = 15) =>
         /\ sleeps = ExpectedWaits
         /\ GetRunCalls = 15
         /\ ~raised
         /\ response = [error |-> ErrMsg(MaxRetriesTemplate, run_id, "", ""),
                        thread_id |-> thread_id, run_id |-> run_id]
         /\ thread_id # 0 /\ run_id # 0
         /\ response.error.template # RemoteFailureTemplate
    /\ (pc = "returned" /\ "error" \in DOMAIN response
        /\ response.error.template = MaxRetriesTemplate) => Len(sleeps) = 15

C1_Witness ==
    /\ pc = "returned" /\ Len(sleeps) = 15
    /\ variant = "_run_agent_via_sdk"

\* C2: a status fetch that returns failed, cancelled or expired makes run return
\* {error: 'Run <run id> ended with status: <status>', thread_id, run_id}; the
\* fetch is the run's last getRun, listMessages is never called, and on the
\* first poll exactly one getRun call was made.
C2_TerminalFailure ==
    current_status \in FailureStatuses =>
         /\ pc = "returned"
         /\ response = [error |-> ErrMsg(RemoteFailureTemplate, run_id, current_status, ""),
                        thread_id |-> thread_id, run_id |-> run_id]
         /\ thread_id # 0 /\ run_id # 0
         /\ CallsOf("list_messages") = {}
         /\ GetRunCalls = retry_count + 1
         /\ calls[Len(calls) - 1] = "get_run"
         /\ retry_count = 0 => GetRunCalls = 1

C2_Witness ==
    /\ current_status = "failed" /\ pc = "returned" /\ retry_count = 0

\* C3: an exception raised by a remote call gives an error result (no raise)
\* that carries the thread_id whenever a thread exists at the failing step, in
\* the caller-supplied-thread variant and in the fresh-thread variant alike.
C3_ExceptionCarriesThread ==
    (pc = "returned" /\ raised) =>
         /\ "error" \in DOMAIN response
         /\ thread_id # 0 =>
              "thread_id" \in DOMAIN response /\ response.thread_id = thread_id

\* C4: after a completed status the result is the value of the first text
\* content block of an assistant message with the greatest created_at on the
\* thread, returned with thread_id and run_id; never a user message's text and
\* never an older assistant message's.
AssistantIndexes == {i \in 1..Len(thread_msgs) : thread_msgs[i].role = "assistant"}
NewestAssistantIndexes ==
    {i \in AssistantIndexes :
        \A j \in AssistantIndexes : thread_msgs[j].created_at <= thread_msgs[i].created_at}
HasText(m) == \E k \in 1..Len(m.content) : "text" \in DOMAIN m.content[k]
FirstTextOf(m) ==
    LET k == CHOOSE n \in 1..Len(m.content) :
                 /\ "text" \in DOMAIN m.content[n]
                 /\ \A l \in 1..(n - 1) : "text" \notin DOMAIN m.content[l]
    IN m.content[k].text.value
C4_NewestAssistantText ==
    (pc = "returned" /\ "result" \in DOMAIN response) =>
         /\ current_status = "completed"
         /\ DOMAIN response = {"result", "thread_id", "run_id"}
         /\ response.thread_id = thread_id /\ response.run_id = run_id
         /\ \E i \in NewestAssistantIndexes :
                HasText(thread_msgs[i]) /\ response.result = FirstTextOf(thread_msgs[i])

\* an older assistant message with another first text and a user message are on
\* the thread, and the newest assistant message has a non-text part first
C4_Witness ==
    /\ pc = "returned" /\ "result" \in DOMAIN response
    /\ response.result = "a"
    /\ \E i \in AssistantIndexes : i \notin NewestAssistantIndexes
                                    /\ HasText(thread_msgs[i])
                                    /\ FirstTextOf(thread_msgs[i]) = "b"
    /\ \E i \in NewestAssistantIndexes : thread_msgs[i].content[1] = ImagePart

\* C5: when the run completed and the listing succeeded but the thread holds no
\* assistant message, or no newest assistant message has a text block, run
\* returns an error with thread_id and run_id and no result field.
C5_NoEmptySuccess ==
    (/\ pc = "returned" /\ current_status = "completed" /\ ~raised
     /\ \A i \in NewestAssistantIndexes : ~HasText(thread_msgs[i])) =>
         /\ DOMAIN response = {"error", "thread_id", "run_id"}
         /\ response.thread_id = thread_id /\ response.run_id = run_id

\* an older assistant message has text, the newest has none
C5_Witness ==
    /\ pc = "returned" /\ current_status = "completed" /\ ~raised
    /\ NewestAssistantIndexes # {}
    /\ \A i \in NewestAssistantIndexes : ~HasText(thread_msgs[i])
    /\ \E i \in AssistantIndexes : HasText(thread_msgs[i])

\* ================================================================ registry
\* A Python dict keeps insertion order: a dict is a sequence of [name, id]
\* records with pairwise different names.
Keys(d) == {d[i].name : i \in 1..Len(d)}
Ids(d) == {d[i].id : i \in 1..Len(d)}
Items(d) == {d[i] : i \in 1..Len(d)}
Entry(k, v) == [name |-> k, id |-> v]

\* self.agent_instructions: the configured roles, in the order of the dict
agent_instructions == <<"policy_extraction_agent", "pay_calculation_agent", "analytics_agent">>
Roles == {agent_instructions[i] : i \in 1..Len(agent_instructions)}

NoFile == [exists |-> FALSE, data |-> <<>>]

\* JSON text as its sequence of tokens: the punctuation and the string literals
Punct(c) == [t |-> c]
Str(v) == [t |-> "str", v |-> v]

\* json.dump(agent_ids, f): {"name": "id", ...} in the order of the dict
Pair(e) == <<Str(e.name), Punct(":"), Str(e.id)>>
RECURSIVE JoinPairs(_)
JoinPairs(d) ==
    IF d = <<>> THEN <<>>
    ELSE IF Len(d) = 1 THEN Pair(d[1])
    ELSE Pair(d[1]) \o <<Punct(",")>> \o JoinPairs(Tail(d))
json_dump(d) == <<Punct("{")>> \o JoinPairs(d) \o <<Punct("}")>>

\* json.load(f) for a file that holds an object of strings: the text parses
\* when it is { }, or { "k": "v" } with further , "k": "v"
Inner(text) == SubSeq(text, 2, Len(text) - 1)
TokenAt(i) == CASE i % 4 = 1 -> "str" [] i % 4 = 2 -> ":" [] i % 4 = 3 -> "str" [] OTHER -> ","
JsonParses(text) ==
    /\ Len(text) >= 2
    /\ text[1] = Punct("{")
    /\ text[Len(text)] = Punct("}")
    /\ Len(Inner(text)) = 0 \/ Len(Inner(text)) % 4 = 3
    /\ \A i \in 1..Len(Inner(text)) : Inner(text)[i].t = TokenAt(i)
\* a key that comes again keeps its place and takes the later value
DictSet(d, k, v) ==
    IF k \in Keys(d) THEN [i \in 1..Len(d) |-> IF d[i].name = k THEN Entry(k, v) ELSE d[i]]
    ELSE Append(d, Entry(k, v))
RECURSIVE DictOfPairs(_, _)
DictOfPairs(inner, d) ==
    IF Len(inner) < 3 THEN d
    ELSE DictOfPairs(SubSeq(inner, 5, Len(inner)), DictSet(d, inner[1].v, inner[3].v))
json_load(text) == DictOfPairs(Inner(text), <<>>)

\* save_agent_ids: an empty dict removes the file, any other is written whole
save_agent_ids_always_writes(file, d) == [exists |-> TRUE, data |-> json_dump(d)]
save_agent_ids(file, d) == IF d = <<>> THEN NoFile ELSE [exists |-> TRUE, data |-> json_dump(d)]

\* load_agent_ids: {} when the file does not exist or json.load raises
load_nothing(file) == <<>>
load_agent_ids(file) ==
    IF file.exists /\ JsonParses(file.data) THEN json_load(file.data) ELSE <<>>

\* validated_ids: the entries of agent_ids whose get_agent call succeeded, in
\* the order of agent_ids (ok: the keys whose call succeeded)
ValidateAll(d, ok) == d
ValidatedIds(d, ok) == SelectSeq(d, LAMBDA e : e.name \in ok)

\* the get_agent calls of the validation loop, one per entry
RECURSIVE GetAgentCalls(_)
GetAgentCalls(d) == IF d = <<>> THEN <<>> ELSE <<"get_agent">> \o GetAgentCalls(Tail(d))

\* what list_agents can return: the service's agents in any order
Listings(S) ==
    {l \in [1..Cardinality(S) -> S] : \A i, j \in 1..Cardinality(S) : l[i] = l[j] => i = j}

\* for agent in agents.data: if agent.name in self.agent_instructions and
\* agent.name not in agent_ids: agent_ids[agent.name] = agent.id
RECURSIVE Discover_replacing(_, _)
Discover_replacing(d, listing) ==
    IF listing = <<>> THEN d
    ELSE LET a == Head(listing)
         IN Discover_replacing(IF a.name \in Roles THEN DictSet(d, a.name, a.id) ELSE d,
                               Tail(listing))
RECURSIVE Discover(_, _)
Discover(d, listing) ==
    IF listing = <<>> THEN d
    ELSE LET a == Head(listing)
         IN Discover(IF a.name \in Roles /\ a.name \notin Keys(d)
                     THEN Append(d, Entry(a.name, a.id)) ELSE d,
                     Tail(listing))

\* if not agent_ids: raise Exception("Failed to deploy any agents")
FailedToDeployNever(d) == FALSE
FailedToDeployAny(d) == d = <<>>

\* for agent_type, instructions in self.agent_instructions.items(): skip the
\* roles agent_ids has, create the others (created[role]: "sdk" the SDK call
\* returned an agent, "api" it raised and the direct request returned an id,
\* "fail" neither gave an id). The result after the roles k..3: the dict, the
\* service's agents, the last id handed out and the calls made.
RECURSIVE Provision_until_failure(_, _, _, _, _, _)
Provision_until_failure(k, d, agents, last, log, created) ==
    IF k > Len(agent_instructions)
    THEN [agent_ids |-> d, remote_agents |-> agents, next_agent |-> last, dcalls |-> log]
    ELSE LET role == agent_instructions[k] IN
         IF role \in Keys(d)
         THEN Provision_until_failure(k + 1, d, agents, last, log, created)
         ELSE IF created[role] = "fail"
         THEN [agent_ids |-> d, remote_agents |-> agents, next_agent |-> last,
               dcalls |-> log \o <<"create_agent", "POST assistants">>]
         ELSE Provision_until_failure(k + 1, Append(d, Entry(role, last + 1)),
                        agents \cup {[id |-> last + 1, name |-> role]}, last + 1,
                        IF created[role] = "sdk"
                        THEN Append(log, "create_agent")
                        ELSE log \o <<"create_agent", "POST assistants">>,
                        created)
RECURSIVE Provision(_, _, _, _, _, _)
Provision(k, d, agents, last, log, created) ==
    IF k > Len(agent_instructions)
    THEN [agent_ids |-> d, remote_agents |-> agents, next_agent |-> last, dcalls |-> log]
    ELSE LET role == agent_instructions[k] IN
         IF role \in Keys(d)
         THEN Provision(k + 1, d, agents, last, log, created)
         ELSE IF created[role] = "fail"
         THEN Provision(k + 1, d, agents, last,
                        log \o <<"create_agent", "POST assistants">>, created)
         ELSE Provision(k + 1, Append(d, Entry(role, last + 1)),
                        agents \cup {[id |-> last + 1, name |-> role]}, last + 1,
                        IF created[role] = "sdk"
                        THEN Append(log, "create_agent")
                        ELSE log \o <<"create_agent", "POST assistants">>,
                        created)

\* the number of agents the loop creates for the outcomes created
Creations(d, created) == Cardinality({r \in Roles \ Keys(d) : created[r] # "fail"})

\* ------------------------------------------------------- registry: actions
RemoteIds == {a.id : a \in remote_agents}

\* the locals of a call that is not running
DeployLocalsAtRest ==
    /\ agent_ids' = <<>>
    /\ loaded' = <<>>
    /\ validated' = {}
    /\ dcalls' = <<>>
    /\ dresult' = <<>>

InitDeploy ==
    /\ RunAtRest /\ NormalizeAtRest /\ project_client = TRUE /\ RegistryAtRest /\ RouterAtRest /\ RouteAtRest
    /\ HandlersAtRest

\* deploy_agents is called: get_existing_agents loads the file
InvokeDeploy ==
    /\ dpc = "idle"
    /\ deploys < MaxDeploys
    /\ deploys' = deploys + 1
    /\ agent_ids' = load_agent_ids(agent_ids_file)
    /\ loaded' = load_agent_ids(agent_ids_file)
    /\ dpc' = IF load_agent_ids(agent_ids_file) = <<>> THEN "get_token" ELSE "validate"
    /\ UNCHANGED <<agent_ids_file, remote_agents, next_agent, validated, dcalls, dresult,
                   prev_result, orch_agent_ids, notRegVars>>

\* if agent_ids: one get_agent per loaded entry; a call can succeed only for an
\* id the service has, and can fail for any
Validate ==
    /\ dpc = "validate"
    /\ \E ok \in SUBSET {e.name : e \in {x \in Items(agent_ids) : x.id \in RemoteIds}} :
         LET validated_ids == ValidatedIds(agent_ids, ok) IN
         /\ validated' = ok
         /\ dcalls' = dcalls \o GetAgentCalls(agent_ids)
         /\ agent_ids' = validated_ids
         /\ agent_ids_file' = IF validated_ids # <<>> /\ Len(validated_ids) < Len(agent_ids)
                              THEN save_agent_ids(agent_ids_file, validated_ids)
                              ELSE agent_ids_file
         /\ IF validated_ids # <<>> /\ Len(validated_ids) = Len(agent_instructions)
            THEN dresult' = validated_ids /\ dpc' = "returned"
            ELSE dresult' = dresult /\ dpc' = "get_token"
    /\ UNCHANGED <<remote_agents, next_agent, loaded, deploys, prev_result,
                   orch_agent_ids, notRegVars>>

\* token = self.credential.get_token(...).token in get_existing_agents, outside
\* any try: an exception leaves get_existing_agents and deploy_agents
GetToken ==
    /\ dpc = "get_token"
    /\ dcalls' = Append(dcalls, "get_token")
    /\ \E token_ok \in BOOLEAN : dpc' = IF token_ok THEN "list_agents" ELSE "raised"
    /\ UNCHANGED <<agent_ids_file, remote_agents, next_agent, agent_ids, loaded, validated,
                   dresult, deploys, prev_result, orch_agent_ids, notRegVars>>

\* list_agents by the SDK, on an exception by GET /assistants, on an exception
\* there nothing; then deploy_agents' test of len(agent_ids)
ListAgents ==
    /\ dpc = "list_agents"
    /\ \E how \in {"sdk", "api", "api_no_data", "none"} : \E listing \in Listings(remote_agents) :
         LET found == IF how \in {"sdk", "api"} THEN Discover(agent_ids, listing) ELSE agent_ids IN
         /\ dcalls' = dcalls \o (IF how = "sdk" THEN <<"list_agents">>
                                 ELSE <<"list_agents", "GET assistants">>)
         /\ agent_ids' = found
         /\ agent_ids_file' = IF how # "none" /\ found # <<>>
                              THEN save_agent_ids(agent_ids_file, found)
                              ELSE agent_ids_file
         /\ IF Len(found) = Len(agent_instructions)
            THEN dresult' = found /\ dpc' = "returned"
            ELSE dresult' = dresult /\ dpc' = "get_token_deploy"
    /\ UNCHANGED <<remote_agents, next_agent, loaded, validated, deploys, prev_result,
                   orch_agent_ids, notRegVars>>

\* token = self.credential.get_token(...).token in deploy_agents, outside any try
GetTokenDeploy ==
    /\ dpc = "get_token_deploy"
    /\ dcalls' = Append(dcalls, "get_token")
    /\ \E token_ok \in BOOLEAN : dpc' = IF token_ok THEN "provision" ELSE "raised"
    /\ UNCHANGED <<agent_ids_file, remote_agents, next_agent, agent_ids, loaded, validated,
                   dresult, deploys, prev_result, orch_agent_ids, notRegVars>>

\* the loop that creates the missing roles, the test for an empty dict, the save
ProvisionAgents ==
    /\ dpc = "provision"
    /\ \E created \in [Roles -> {"sdk", "api", "fail"}] :
         LET r == Provision(1, agent_ids, remote_agents, next_agent, dcalls, created) IN
         /\ next_agent + Creations(agent_ids, created) <= MaxAgents
         /\ agent_ids' = r.agent_ids
         /\ remote_agents' = r.remote_agents
         /\ next_agent' = r.next_agent
         /\ dcalls' = r.dcalls
         /\ IF FailedToDeployAny(r.agent_ids)
            THEN /\ dpc' = "raised"
                 /\ UNCHANGED <<agent_ids_file, dresult>>
            ELSE /\ dpc' = "returned"
                 /\ agent_ids_file' = save_agent_ids(agent_ids_file, r.agent_ids)
                 /\ dresult' = r.agent_ids
    /\ UNCHANGED <<loaded, validated, deploys, prev_result, orch_agent_ids, notRegVars>>

\* AzureAgentOrchestrator.deploy_agents: self.agent_ids = agent_ids; return
DeployReturned ==
    /\ dpc = "returned"
    /\ orch_agent_ids' = dresult
    /\ prev_result' = dresult
    /\ dpc' = "idle"
    /\ DeployLocalsAtRest
    /\ UNCHANGED <<agent_ids_file, remote_agents, next_agent, deploys, notRegVars>>

\* (a variant that forgets the mapping when the deployment raised)
DeployRaised_clearing ==
    /\ dpc = "raised"
    /\ prev_result' = <<>>
    /\ orch_agent_ids' = <<>>
    /\ dpc' = "idle"
    /\ DeployLocalsAtRest
    /\ UNCHANGED <<agent_ids_file, remote_agents, next_agent, deploys, notRegVars>>
\* AzureAgentOrchestrator.deploy_agents: except Exception: raise
DeployRaised ==
    /\ dpc = "raised"
    /\ prev_result' = <<>>
    /\ dpc' = "idle"
    /\ DeployLocalsAtRest
    /\ UNCHANGED <<agent_ids_file, remote_agents, next_agent, deploys, orch_agent_ids, notRegVars>>

\* remote: an agent is deleted behind the registry's back (purge_agents.py
\* deletes agents and leaves agent_ids.json alone)
RemoteDelete ==
    /\ dpc = "idle"
    /\ \E a \in remote_agents : remote_agents' = remote_agents \ {a}
    /\ UNCHANGED <<agent_ids_file, next_agent, dpc, agent_ids, loaded, validated, dcalls,
                   dresult, deploys, prev_result, orch_agent_ids, notRegVars>>

NextDeploy ==
    \/ InvokeDeploy
    \/ Validate
    \/ GetToken
    \/ ListAgents
    \/ GetTokenDeploy
    \/ ProvisionAgents
    \/ DeployReturned
    \/ DeployRaised
    \/ RemoteDelete

SpecDeploy == InitDeploy /\ [][NextDeploy]_vars

\* ------------------------------------------------------ registry: claims
CreateCalls == {"create_agent", "POST assistants"}
MadeCreateCall == \E i \in 1..Len(dcalls) : dcalls[i] \in CreateCalls
\* two dicts are equal when they hold the same items, whatever the order
SameMapping(d, e) == Items(d) = Items(e) /\ Len(d) = Len(e)

\* C6 (as stated): a deploy_agents call that follows a call that returned makes
\* no createAgent call and returns the same role-to-id mapping.
C6_SecondCallResolves ==
    (dpc = "returned" /\ prev_result # <<>>)
        => (~MadeCreateCall /\ SameMapping(dresult, prev_result))

\* C6 (amended): when the previous call returned an id for every configured role
\* and every get_agent validation of this call succeeds, this call makes no
\* createAgent call (its only remote calls are the get_agent validations) and
\* returns the same mapping.
C6_CompleteSecondCallResolves ==
    (dpc = "returned" /\ Keys(prev_result) = Roles /\ validated = Keys(loaded))
        => (~MadeCreateCall /\ SameMapping(dresult, prev_result)
            /\ dcalls = GetAgentCalls(prev_result))

C6_Witness ==
    /\ dpc = "returned"
    /\ deploys = 2
    /\ Keys(prev_result) = Roles
    /\ validated = Roles
    /\ SameMapping(dresult, prev_result)

\* C7: when exactly one entry of the persisted mapping fails validation and at
\* least one other validates, the validation step writes to the file the loaded
\* mapping without that entry, every other entry with its role and id.
C7_DropsExactlyInvalid ==
    [][(dpc = "validate" /\ Len(agent_ids) >= 2
        /\ Cardinality(Keys(agent_ids) \ validated') = 1)
       => (/\ agent_ids_file'.exists
           /\ Len(json_load(agent_ids_file'.data)) = Len(json_load(agent_ids_file.data)) - 1
           /\ Items(json_load(agent_ids_file'.data))
                = {e \in Items(json_load(agent_ids_file.data)) : e.name \in validated'}
           /\ agent_ids' = json_load(agent_ids_file'.data))]_vars

C7_Witness ==
    /\ dpc = "get_token"
    /\ dcalls = GetAgentCalls(loaded)
    /\ Len(loaded) = 3
    /\ Cardinality(Keys(loaded) \ validated) = 1
    /\ agent_ids_file.exists
    /\ Len(json_load(agent_ids_file.data)) = 2
    /\ Items(json_load(agent_ids_file.data)) \subseteq Items(loaded)

\* C8 (as stated): a mapping deploy_agents returns has exactly one entry for each
\* configured role, each with an id of an agent of the service.
C8_EveryRoleOrFail ==
    dpc = "returned"
        => (Keys(dresult) = Roles /\ Len(dresult) = Cardinality(Roles)
            /\ Ids(dresult) \subseteq RemoteIds)

\* C8 (amended): a mapping deploy_agents returns is not empty, has at most one
\* entry per configured role and none for another name, and each id is the id of
\* an agent of that name the service has at the return; a role that could not be
\* resolved is absent from the mapping.
C8_NonEmptyValidPartial ==
    dpc = "returned"
        => (/\ dresult # <<>>
            /\ Keys(dresult) \subseteq Roles
            /\ Len(dresult) = Cardinality(Keys(dresult))
            /\ \A e \in Items(dresult) : [id |-> e.id, name |-> e.name] \in remote_agents)

C8_Witness ==
    /\ dpc = "returned"
    /\ MadeCreateCall
    /\ Len(dresult) \in {1, 2}
    /\ Keys(dresult) # Roles

\* C9: deploy_agents raises only when no role is resolved.
C9_RaisesOnlyWhenNoneResolved ==
    dpc = "raised" => agent_ids = <<>>

\* ============================================================ query router
\* A Python str is a sequence of one-character strings. The model's characters
\* are ASCII: letters, digits, the underscore, whitespace and punctuation.
LowerLetters == <<"a", "b", "c", "d", "e", "f", "g", "h", "i", "j", "k", "l", "m", "n", "o", "p", "q", "r", "s", "t", "u", "v", "w", "x", "y", "z">>
UpperLetters == <<"A", "B", "C", "D", "E", "F", "G", "H", "I", "J", "K", "L", "M", "N", "O", "P", "Q", "R", "S", "T", "U", "V", "W", "X", "Y", "Z">>
Digits == {"0", "1", "2", "3", "4", "5", "6", "7", "8", "9"}
Range(f) == {f[i] : i \in DOMAIN f}

\* str.lower()
UpperSet == Range(UpperLetters)
LowerOf == [c \in UpperSet |-> LowerLetters[CHOOSE i \in DOMAIN UpperLetters : UpperLetters[i] = c]]
LowerChar(c) == IF c \in UpperSet THEN LowerOf[c] ELSE c
lower(str) == [i \in 1..Len(str) |-> LowerChar(str[i])]

\* the regular expression classes \w and \s
WordChars == Range(LowerLetters) \cup UpperSet \cup Digits \cup {"_"}
SpaceChars == {" ", "\t", "\n"}
IsWordChar(c) == c \in WordChars
IsSpaceChar(c) == c \in SpaceChars

\* re.sub(r'[^\w\s]', '', str)
RemoveNonWordNonSpace(str) == SelectSeq(str, LAMBDA c : IsWordChar(c) \/ IsSpaceChar(c))

\* re.sub(r'\s+', ' ', str): every maximal run of whitespace becomes one space
CollapseWhitespace(str) ==
    LET marked == [i \in 1..Len(str) |->
                     [c |-> IF IsSpaceChar(str[i]) THEN " " ELSE str[i],
                      run_goes_on |-> IsSpaceChar(str[i]) /\ i < Len(str) /\ IsSpaceChar(str[i + 1])]]
        kept == SelectSeq(marked, LAMBDA m : ~m.run_goes_on)
    IN [i \in 1..Len(kept) |-> kept[i].c]

\* str.strip()
RECURSIVE LStrip(_)
LStrip(str) ==
    IF str # <<>> /\ IsSpaceChar(Head(str)) THEN LStrip(Tail(str)) ELSE str
RECURSIVE RStrip(_)
RStrip(str) ==
    IF str # <<>> /\ IsSpaceChar(str[Len(str)]) THEN RStrip(SubSeq(str, 1, Len(str) - 1)) ELSE str
strip(str) == LStrip(RStrip(str))

\* simplified[:100]
KeyLength == 100
Truncate(str, n) == SubSeq(str, 1, Min(n, Len(str)))

\* _get_query_cache_key
get_query_cache_key_as_typed(q) ==
    Truncate(strip(CollapseWhitespace(RemoveNonWordNonSpace(q))), KeyLength)
get_query_cache_key(q) ==
    Truncate(strip(CollapseWhitespace(RemoveNonWordNonSpace(lower(q)))), KeyLength)

\* keyword in query_lower: the keyword occurs in the query as a substring
Contains(str, sub) ==
    \E i \in 0..(Len(str) - Len(sub)) : SubSeq(str, i + 1, i + Len(sub)) = sub

\* the agent ids, as Python strings
policy_extraction_agent == <<"p", "o", "l", "i", "c", "y", "_", "e", "x", "t", "r", "a", "c", "t", "i", "o", "n", "_", "a", "g", "e", "n", "t">>
pay_calculation_agent == <<"p", "a", "y", "_", "c", "a", "l", "c", "u", "l", "a", "t", "i", "o", "n", "_", "a", "g", "e", "n", "t">>
analytics_agent == <<"a", "n", "a", "l", "y", "t", "i", "c", "s", "_", "a", "g", "e", "n", "t">>
KnownAgents == {policy_extraction_agent, pay_calculation_agent, analytics_agent}

\* self.agent_capabilities: agent id and keywords, in the order of the dict
agent_capabilities == <<
    [agent_id |-> policy_extraction_agent, keywords |-> <<
         <<"p", "o", "l", "i", "c", "y">>,
         <<"p", "o", "l", "i", "c", "i", "e", "s">>,
         <<"r", "u", "l", "e", "s">>,
         <<"g", "u", "i", "d", "e", "l", "i", "n", "e", "s">>,
         <<"s", "t", "a", "n", "d", "b", "y">>,
         <<"c", "a", "l", "l", "o", "u", "t">>,
         <<"e", "l", "i", "g", "i", "b", "i", "l", "i", "t", "y">> >>],
    [agent_id |-> pay_calculation_agent, keywords |-> <<
         <<"c", "a", "l", "c", "u", "l", "a", "t", "e">>,
         <<"c", "a", "l", "c", "u", "l", "a", "t", "i", "o", "n">>,
         <<"p", "a", "y">>,
         <<"p", "a", "y", "m", "e", "n", "t">>,
         <<"o", "v", "e", "r", "t", "i", "m", "e">>,
         <<"h", "o", "u", "r", "s">>,
         <<"r", "a", "t", "e">> >>],
    [agent_id |-> analytics_agent, keywords |-> <<
         <<"a", "n", "a", "l", "y", "z", "e">>,
         <<"a", "n", "a", "l", "y", "s", "i", "s">>,
         <<"t", "r", "e", "n", "d">>,
         <<"p", "a", "t", "t", "e", "r", "n">>,
         <<"r", "e", "p", "o", "r", "t">>,
         <<"s", "t", "a", "t", "i", "s", "t", "i", "c", "s">>,
         <<"d", "a", "t", "a">> >>] >>

\* self.agent_name_mapping, in the order of the dict
agent_name_mapping == <<
    [key |-> <<"p", "o", "l", "i", "c", "y", " ", "e", "x", "t", "r", "a", "c", "t", "i", "o", "n", " ", "a", "g", "e", "n", "t">>, value |-> policy_extraction_agent],
    [key |-> <<"p", "a", "y", " ", "c", "a", "l", "c", "u", "l", "a", "t", "i", "o", "n", " ", "a", "g", "e", "n", "t">>, value |-> pay_calculation_agent],
    [key |-> <<"a", "n", "a", "l", "y", "t", "i", "c", "s", " ", "a", "g", "e", "n", "t">>, value |-> analytics_agent],
    [key |-> policy_extraction_agent, value |-> policy_extraction_agent],
    [key |-> pay_calculation_agent, value |-> pay_calculation_agent],
    [key |-> analytics_agent, value |-> analytics_agent] >>

\* JSON values that are not strings or lists: null, and a number other than 0.
\* They are one-element sequences whose element is not a character, so that no
\* Python string or list of strings equals them.
JsonNull == <<"(null)">>
JsonNumber == <<"(number)">>

\* _normalize_agent_name (not agent_name: None or the empty string)
normalize_known_names_only(agent_name) ==
    LET normalized == lower(agent_name)
        exact == {i \in DOMAIN agent_name_mapping : agent_name_mapping[i].key = normalized}
    IN IF agent_name = <<>> \/ agent_name = JsonNull THEN policy_extraction_agent
       ELSE IF exact # {} THEN agent_name_mapping[MinOf(exact)].value
       ELSE agent_name
normalize_case_sensitive(agent_name) ==
    LET normalized == agent_name
        exact == {i \in DOMAIN agent_name_mapping : agent_name_mapping[i].key = normalized}
        similar == {i \in DOMAIN agent_name_mapping :
                      \/ Contains(normalized, agent_name_mapping[i].key)
                      \/ Contains(agent_name_mapping[i].key, normalized)}
    IN IF agent_name = <<>> \/ agent_name = JsonNull THEN policy_extraction_agent
       ELSE IF exact # {} THEN agent_name_mapping[MinOf(exact)].value
       ELSE IF similar # {} THEN agent_name_mapping[MinOf(similar)].value
       ELSE agent_name
normalize_agent_name(agent_name) ==
    LET normalized == lower(agent_name)
        exact == {i \in DOMAIN agent_name_mapping : agent_name_mapping[i].key = normalized}
        similar == {i \in DOMAIN agent_name_mapping :
                      \/ Contains(normalized, agent_name_mapping[i].key)
                      \/ Contains(agent_name_mapping[i].key, normalized)}
    IN IF agent_name = <<>> \/ agent_name = JsonNull THEN policy_extraction_agent
       ELSE IF exact # {} THEN agent_name_mapping[MinOf(exact)].value
       ELSE IF similar # {} THEN agent_name_mapping[MinOf(similar)].value
       ELSE agent_name

\* _get_fallback_agent_by_keywords: the first agent with the highest score, the
\* policy agent when no keyword occurs in the query
Score(i, query_lower) ==
    Cardinality({k \in DOMAIN agent_capabilities[i].keywords :
                   Contains(query_lower, lower(agent_capabilities[i].keywords[k]))})
get_fallback_agent_last_of_ties(q) ==
    LET query_lower == lower(q)
        agent_scores == [i \in DOMAIN agent_capabilities |-> Score(i, query_lower)]
        max_score == CHOOSE m \in Range(agent_scores) : \A i \in DOMAIN agent_scores : agent_scores[i] <= m
        top == {i \in DOMAIN agent_scores : agent_scores[i] = max_score}
    IN IF max_score > 0
       THEN agent_capabilities[CHOOSE i \in top : \A j \in top : j <= i].agent_id
       ELSE policy_extraction_agent
get_fallback_agent_by_keywords(q) ==
    LET query_lower == lower(q)
        agent_scores == [i \in DOMAIN agent_capabilities |-> Score(i, query_lower)]
        max_score == CHOOSE m \in Range(agent_scores) : \A i \in DOMAIN agent_scores : agent_scores[i] <= m
    IN IF max_score > 0
       THEN agent_capabilities[MinOf({i \in DOMAIN agent_scores : agent_scores[i] = max_score})].agent_id
       ELSE policy_extraction_agent

\* ---------------------------------------------------- query router: inputs
\* the queries of the model: one request in several spellings, spellings that
\* join or split its words, queries without a word character, and queries
\* longer than a cache key
Pad(n) == [i \in 1..n |-> "a"]
Queries == {
    <<"C", "a", "l", "c", "u", "l", "a", "t", "e", " ", "O", "V", "E", "R", "T", "I", "M", "E", " ", "p", "a", "y", "!">>,
    <<"c", "a", "l", "c", "u", "l", "a", "t", "e", " ", "o", "v", "e", "r", "t", "i", "m", "e", " ", "p", "a", "y">>,
    <<"c", "a", "l", "c", "u", "l", "a", "t", "e", " ", " ", "o", "v", "e", "r", "t", "i", "m", "e", "\t", "p", "a", "y">>,
    <<" ", "c", "a", "l", "c", "u", "l", "a", "t", "e", " ", "o", "v", "e", "r", "t", "i", "m", "e", " ", "p", "a", "y", " ">>,
    <<"c", "a", "l", "c", "u", "l", "a", "t", "e", " ", "o", "v", "e", "r", "t", "i", "m", "e", "p", "a", "y">>,
    <<"c", "a", "l", "c", "u", "l", "a", "t", "e", " ", "o", "v", "e", "r", "t", "i", "m", "e", "_", "p", "a", "y">>,
    <<"c", "a", "l", "c", "u", "l", "a", "t", "e", " ", "o", "v", "e", "r", "t", "i", "m", "e", ",", "p", "a", "y">>,
    <<"?", "!">>,
    <<>>,
    Pad(KeyLength - 3) \o <<" ", "p", "a", "y">>,
    Pad(KeyLength - 3) \o <<" ", " ", "P", "a", "y", "!">>,
    Pad(KeyLength - 3) \o <<" ", "p", "a", "t">> }

\* the queries of the routing test table (test_azure_agent_service.py), the
\* example of the specification, a query without a keyword and one whose
\* keywords all belong to the last role
RoutingTable == <<
    [query |-> <<"W", "h", "a", "t", " ", "a", "r", "e", " ", "t", "h", "e", " ", "c", "u", "r", "r", "e", "n", "t", " ", "s", "t", "a", "n", "d", "b", "y", " ", "p", "a", "y", "m", "e", "n", "t", " ", "p", "o", "l", "i", "c", "i", "e", "s", " ", "f", "o", "r", " ", "U", "K", " ", "e", "m", "p", "l", "o", "y", "e", "e", "s", "?">>,
     expected_agent |-> policy_extraction_agent],
    [query |-> <<"C", "a", "l", "c", "u", "l", "a", "t", "e", " ", "t", "h", "e", " ", "a", "p", "p", "r", "o", "p", "r", "i", "a", "t", "e", " ", "s", "u", "p", "p", "l", "e", "m", "e", "n", "t", "a", "l", " ", "p", "a", "y", " ", "f", "o", "r", " ", "o", "v", "e", "r", "t", "i", "m", "e", " ", "w", "o", "r", "k", " ", "f", "o", "r", " ", "e", "m", "p", "l", "o", "y", "e", "e", " ", "1", "0", "0", "0", "0", "5", "1", "8">>,
     expected_agent |-> pay_calculation_agent],
    [query |-> <<"I", "d", "e", "n", "t", "i", "f", "y", " ", "t", "r", "e", "n", "d", "s", " ", "i", "n", " ", "s", "u", "p", "p", "l", "e", "m", "e", "n", "t", "a", "l", " ", "p", "a", "y", " ", "o", "v", "e", "r", " ", "t", "h", "e", " ", "l", "a", "s", "t", " ", "q", "u", "a", "r", "t", "e", "r">>,
     expected_agent |-> analytics_agent],
    [query |-> <<"F", "o", "r", " ", "a", " ", "U", "K", " ", "e", "m", "p", "l", "o", "y", "e", "e", " ", "w", "o", "r", "k", "i", "n", "g", " ", "s", "t", "a", "n", "d", "b", "y", ",", " ", "w", "h", "a", "t", " ", "p", "a", "y", "m", "e", "n", "t", " ", "s", "h", "o", "u", "l", "d", " ", "t", "h", "e", "y", " ", "r", "e", "c", "e", "i", "v", "e", " ", "a", "n", "d", " ", "w", "h", "a", "t", " ", "p", "o", "l", "i", "c", "y", " ", "c", "o", "v", "e", "r", "s", " ", "t", "h", "i", "s", "?">>,
     expected_agent |-> policy_extraction_agent],
    [query |-> <<"I", " ", "n", "e", "e", "d", " ", "h", "e", "l", "p", " ", "w", "i", "t", "h", " ", "a", " ", "p", "a", "y", "m", "e", "n", "t", " ", "i", "s", "s", "u", "e", " ", "r", "e", "l", "a", "t", "e", "d", " ", "t", "o", " ", "p", "o", "l", "i", "c", "i", "e", "s">>,
     expected_agent |-> policy_extraction_agent] >>
StandbyRulesQuery == <<"W", "h", "a", "t", " ", "a", "r", "e", " ", "s", "t", "a", "n", "d", "b", "y", " ", "p", "a", "y", "m", "e", "n", "t", " ", "r", "u", "l", "e", "s", "?">>
RoutingQueries ==
    {RoutingTable[i].query : i \in DOMAIN RoutingTable}
        \cup {StandbyRulesQuery, <<"H", "e", "l", "l", "o", " ", "t", "h", "e", "r", "e">>, <<"A", "n", "a", "l", "y", "z", "e", " ", "d", "a", "t", "a", " ", "t", "r", "e", "n", "d", "s">>}
AllQueries == Queries \cup RoutingQueries

\* what json.loads can give for the classifier's text: the routing dicts of the
\* model (confidence in tenths)
JsonReplies == {
    [primary_agent |-> <<"P", "a", "y", " ", "C", "a", "l", "c", "u", "l", "a", "t", "i", "o", "n", " ", "A", "g", "e", "n", "t">>, confidence |-> 9,
     secondary_agents |-> << <<"a", "n", "a", "l", "y", "t", "i", "c", "s">> >>, context |-> "from the classifier"],
    [confidence |-> 8, context |-> "from the classifier"] }

\* further dicts: a primary_agent no alias covers, one that is null, one that is
\* a number, and a dict without context whose secondary_agents is null
OddJsonReplies == {
    [primary_agent |-> <<"b", "i", "l", "l", "i", "n", "g", "_", "a", "g", "e", "n", "t">>, confidence |-> 9,
     secondary_agents |-> << <<"P", "o", "l", "i", "c", "y", " ", "E", "x", "t", "r", "a", "c", "t", "i", "o", "n", " ", "A", "g", "e", "n", "t">> >>, context |-> "from the classifier"],
    [primary_agent |-> JsonNull, confidence |-> 9,
     secondary_agents |-> <<>>, context |-> "from the classifier"],
    [primary_agent |-> JsonNumber, confidence |-> 9,
     secondary_agents |-> <<>>, context |-> "from the classifier"],
    [primary_agent |-> <<"a", "n", "a", "l", "y", "t", "i", "c", "s">>, confidence |-> 9, secondary_agents |-> JsonNull] }

\* what kernel.invoke and the JSON extraction can do: raise, give text without
\* braces, give text that does not parse, give a dict
OutcomesWith(replies) ==
    {[kind |-> "raise"], [kind |-> "no_json"], [kind |-> "bad_json"]}
        \cup {[kind |-> "json", value |-> j] : j \in replies}
ClassifierOutcomes == OutcomesWith(JsonReplies)
AllClassifierOutcomes == OutcomesWith(JsonReplies \cup OddJsonReplies)

\* the two functions of the query alone, tabulated over the queries of the model
CacheKeyOf == [q \in AllQueries |-> get_query_cache_key(q)]
FallbackAgentOf == [q \in AllQueries |-> get_fallback_agent_by_keywords(q)]

\* ------------------------------------------------- query router: the dicts
FallbackRoutingInfo_confident(q, tenths, why) ==
    [primary_agent |-> FallbackAgentOf[q], confidence |-> 9,
     secondary_agents |-> <<>>, context |-> why]
FallbackRoutingInfo(q, tenths, why) ==
    [primary_agent |-> FallbackAgentOf[q], confidence |-> tenths,
     secondary_agents |-> <<>>, context |-> why]

\* lines 234-260: the dict parsed from the classifier's text, or the keyword
\* fallback with confidence 0.4
ParsedRoutingInfo(out, q) ==
    IF out.kind = "json" THEN out.value
    ELSE IF out.kind = "no_json"
    THEN FallbackRoutingInfo(q, 4, "Fallback routing used due to missing JSON in response")
    ELSE FallbackRoutingInfo(q, 4, "Fallback routing used due to JSON parse error")

\* isinstance(value, list): the model's only value that is no list is null
IsList(value) == value # JsonNull

\* agent_name.lower() raises AttributeError for a value that is not a string
\* and not falsy
NormalizeRaises(info) ==
    \/ "primary_agent" \in DOMAIN info /\ info.primary_agent = JsonNumber
    \/ /\ "secondary_agents" \in DOMAIN info
       /\ IsList(info.secondary_agents)
       /\ \E i \in DOMAIN info.secondary_agents : info.secondary_agents[i] = JsonNumber

\* lines 266-276: primary_agent normalised or taken from the keywords, every
\* secondary agent normalised when secondary_agents is a list
NormalizedRoutingInfo(info, q) ==
    LET primary == IF "primary_agent" \in DOMAIN info
                   THEN normalize_agent_name(info.primary_agent)
                   ELSE FallbackAgentOf[q]
        with_primary == [k \in DOMAIN info \cup {"primary_agent"} |->
                           IF k = "primary_agent" THEN primary ELSE info[k]]
    IN IF "secondary_agents" \in DOMAIN info /\ IsList(info.secondary_agents)
       THEN [with_primary EXCEPT !.secondary_agents =
                [i \in DOMAIN info.secondary_agents |-> normalize_agent_name(info.secondary_agents[i])]]
       ELSE with_primary

\* lines 289-298: the dict returned when analyze_query caught an exception
ErrorRoutingInfo(q) ==
    FallbackRoutingInfo(q, 3, "Error in query analysis: <exception>, using keyword-based fallback")

\* -------------------------------------------------- query router: the cache
CacheKeys(cache) == {cache[i].key : i \in 1..Len(cache)}
CacheGet(cache, k) == cache[CHOOSE i \in 1..Len(cache) : cache[i].key = k].value
\* self.query_cache[cache_key] = value: a new key goes last, a known key keeps its place
CachePut_dropped(cache, k, v) == cache
CachePut(cache, k, v) ==
    IF k \in CacheKeys(cache)
    THEN [i \in 1..Len(cache) |-> IF cache[i].key = k THEN [key |-> k, value |-> v] ELSE cache[i]]
    ELSE Append(cache, [key |-> k, value |-> v])

\* _manage_cache_size: above the limit, the oldest 20% of the limit are removed
cache_size_limit == 100
items_to_remove == (cache_size_limit * 2) \div 10
manage_cache_size_never(cache) == cache
manage_cache_size(cache) ==
    IF Len(cache) > cache_size_limit
    THEN SubSeq(cache, Min(items_to_remove, Len(cache)) + 1, Len(cache))
    ELSE cache

\* ------------------------------------------------- query router: actions
InitRouter ==
    /\ RunAtRest /\ NormalizeAtRest /\ project_client = TRUE /\ RegistryAtRest /\ RouterAtRest /\ RouteAtRest
    /\ HandlersAtRest

\* analyze_query is called: the cache key, and on a hit the copy of the cached dict
AnalyzeQueryFrom(queries) ==
    /\ apc = "idle"
    /\ Len(analyses) < MaxAnalyses
    /\ \E q \in queries :
         LET key == CacheKeyOf[q] IN
         /\ query' = q
         /\ cache_key' = key
         /\ invoked' = FALSE
         /\ IF key \in CacheKeys(query_cache)
            THEN /\ routing_info' = CacheGet(query_cache, key)
                 /\ apc' = "returned"
            ELSE /\ routing_info' = NoRoutingInfo
                 /\ apc' = "invoke"
    /\ UNCHANGED <<query_cache, analyses, notRouterVars>>
AnalyzeQuery == AnalyzeQueryFrom(Queries)

\* await self.kernel.invoke(...) and what follows it: the dict is parsed,
\* normalised, stored and the cache trimmed; an exception gives the error dict
\* and stores nothing
InvokeClassifierWith(outcomes) ==
    /\ apc = "invoke"
    /\ invoked' = TRUE
    /\ apc' = "returned"
    /\ \E out \in outcomes :
         IF out.kind = "raise" \/ NormalizeRaises(ParsedRoutingInfo(out, query))
         THEN /\ routing_info' = ErrorRoutingInfo(query)
              /\ UNCHANGED query_cache
         ELSE LET info == NormalizedRoutingInfo(ParsedRoutingInfo(out, query), query) IN
              /\ routing_info' = info
              /\ query_cache' = manage_cache_size(CachePut(query_cache, cache_key, info))
    /\ UNCHANGED <<query, cache_key, analyses, notRouterVars>>
InvokeClassifier == InvokeClassifierWith(ClassifierOutcomes)

\* the call returns routing_info to its caller
AnalyzeReturned ==
    /\ apc = "returned"
    /\ analyses' = Append(analyses, [query |-> query, routing_info |-> routing_info,
                                     invoked |-> invoked])
    /\ apc' = "idle"
    /\ query' = <<>>
    /\ cache_key' = <<>>
    /\ routing_info' = NoRoutingInfo
    /\ invoked' = FALSE
    /\ UNCHANGED <<query_cache, notRouterVars>>

NextRouter ==
    \/ AnalyzeQuery
    \/ InvokeClassifier
    \/ AnalyzeReturned

SpecRouter == InitRouter /\ [][NextRouter]_vars

\* the router on the routing queries, with every behaviour of the classifier
AnalyzeRoutingQuery == AnalyzeQueryFrom(RoutingQueries)
InvokeAnyClassifier == InvokeClassifierWith(AllClassifierOutcomes)
NextRouting ==
    \/ AnalyzeRoutingQuery
    \/ InvokeAnyClassifier
    \/ AnalyzeReturned

SpecRouting == InitRouter /\ [][NextRouting]_vars

\* --------------------------------------------------- query router: claims
LettersAndDigits == Range(LowerLetters) \cup Digits
\* two queries differ only in letter case, punctuation or whitespace: they are
\* the same once letters are lowercased and every character that is not a
\* letter or a digit is left out
LettersAndDigitsOf == [q \in Queries |-> SelectSeq(lower(q), LAMBDA c : c \in LettersAndDigits)]
DifferOnlyInCasePunctuationWhitespace(q1, q2) == LettersAndDigitsOf[q1] = LettersAndDigitsOf[q2]

\* the words of a query: its characters other than whitespace and punctuation
\* (the underscore counts as a letter), lowercased, each marked when it starts a
\* word, i.e. when it is the first or follows whitespace
WordsOf(q) ==
    LET s == SelectSeq(lower(q), LAMBDA c : c \in LettersAndDigits \cup {"_"} \cup SpaceChars)
        marked == [i \in 1..Len(s) |->
                     [c |-> s[i], starts_word |-> i = 1 \/ s[i - 1] \in SpaceChars]]
    IN SelectSeq(marked, LAMBDA m : m.c \notin SpaceChars)
WordsOfQuery == [q \in Queries |-> WordsOf(q)]
SameWords(q1, q2) == WordsOfQuery[q1] = WordsOfQuery[q2]

\* the call's classifier invocation raised: it returned the error dict
ReturnedErrorFallback(a) == a.invoked /\ a.routing_info = ErrorRoutingInfo(a.query)

OverlapsAlias(name) ==
    \E i \in DOMAIN agent_name_mapping :
        \/ Contains(lower(name), agent_name_mapping[i].key)
        \/ Contains(agent_name_mapping[i].key, lower(name))
\* the primary_agent strings the classifier can give that overlap no alias
UnmappableNames ==
    {j.primary_agent : j \in {r \in JsonReplies \cup OddJsonReplies :
        /\ "primary_agent" \in DOMAIN r
        /\ r.primary_agent \notin {JsonNull, JsonNumber, <<>>}
        /\ ~OverlapsAlias(r.primary_agent)}}

\* C11 (as stated): the primary agent of every decision analyze returns is one
\* of the three known roles.
C11_PrimaryIsKnownRole ==
    apc = "returned" => routing_info.primary_agent \in KnownAgents

\* C11 (amended): the primary agent of every decision analyze returns is a
\* non-empty string; it is one of the three known roles unless the classifier's
\* JSON gave a primary_agent string that overlaps no alias, which is returned
\* as it was given.
C11_PrimaryKnownOrVerbatim ==
    apc = "returned" =>
        /\ routing_info.primary_agent \notin {JsonNull, JsonNumber, <<>>}
        /\ routing_info.primary_agent \in KnownAgents \cup UnmappableNames

C11_Witness ==
    /\ apc = "returned"
    /\ invoked
    /\ routing_info.primary_agent \in UnmappableNames
    /\ routing_info.confidence = 9

\* the number of keywords of the i-th role that occur in the lowercased query
KeywordsFound(i, q) ==
    Cardinality({kw \in Range(agent_capabilities[i].keywords) : Contains(lower(q), kw)})
\* the role keyword scoring gives: the first role in the order policy, pay,
\* analytics whose score no role exceeds, the policy role when nothing occurs
RoleByKeywords(q) ==
    IF \A i \in DOMAIN agent_capabilities : KeywordsFound(i, q) = 0
    THEN policy_extraction_agent
    ELSE agent_capabilities[CHOOSE i \in DOMAIN agent_capabilities :
             /\ \A j \in DOMAIN agent_capabilities : KeywordsFound(j, q) <= KeywordsFound(i, q)
             /\ \A j \in 1..(i - 1) : KeywordsFound(j, q) < KeywordsFound(i, q)].agent_id
RoleByKeywordsOf == [q \in RoutingQueries |-> RoleByKeywords(q)]

\* the decision was made by the keyword fallback of this call: the classifier
\* was invoked and the context is one of the three fallback texts
FallbackContexts == {
    "Fallback routing used due to missing JSON in response",
    "Fallback routing used due to JSON parse error",
    "Error in query analysis: <exception>, using keyword-based fallback" }
DecidedByFallback ==
    /\ apc = "returned"
    /\ invoked
    /\ "context" \in DOMAIN routing_info
    /\ routing_info.context \in FallbackContexts

C13_TableAgentByFallback ==
    DecidedByFallback =>
        \A i \in DOMAIN RoutingTable :
            query = RoutingTable[i].query
                => routing_info.primary_agent = RoutingTable[i].expected_agent

\* ============================================================ route_request
\* AzureAgentOrchestrator.route_request: analyze the query, find an agent id in
\* self.agent_ids, create a thread, run the agent, annotate the response.

\* the registry's key names as Python strings; "analytics_agent_v2" is a key of
\* an agent_ids.json that another release wrote (get_existing_agents checks the
\* ids of the file, never its key names)
RegistryNameChars ==
    [n \in Roles \cup {"analytics_agent_v2"} |->
        CASE n = "policy_extraction_agent" -> policy_extraction_agent
          [] n = "pay_calculation_agent" -> pay_calculation_agent
          [] n = "analytics_agent" -> analytics_agent
          [] n = "analytics_agent_v2" -> analytics_agent \o <<"_", "v", "2">>]

\* self.agent_ids when route_request is called: empty (nothing deployed), all
\* roles, some roles, and a registry taken from a file with another key name
RouteRegistries ==
    { <<>>,
      <<Entry("policy_extraction_agent", 1), Entry("pay_calculation_agent", 2),
        Entry("analytics_agent", 3)>>,
      <<Entry("pay_calculation_agent", 2)>>,
      <<Entry("pay_calculation_agent", 2), Entry("policy_extraction_agent", 1)>>,
      <<Entry("pay_calculation_agent", 2), Entry("analytics_agent_v2", 3)>> }

\* the queries and the classifier outcomes of the route_request model
HelloQuery == <<"H", "e", "l", "l", "o", " ", "t", "h", "e", "r", "e">>
RouteQueries == {StandbyRulesQuery, HelloQuery}
billing_agent == <<"b", "i", "l", "l", "i", "n", "g", "_", "a", "g", "e", "n", "t">>
RouteJsonReplies == {
    [primary_agent |-> billing_agent, confidence |-> 9,
     secondary_agents |-> << <<"P", "o", "l", "i", "c", "y", " ", "E", "x", "t", "r", "a", "c", "t", "i", "o", "n", " ", "A", "g", "e", "n", "t">> >>, context |-> "from the classifier"],
    [primary_agent |-> billing_agent, confidence |-> 9, secondary_agents |-> <<>>],
    [primary_agent |-> <<"a", "n", "a", "l", "y", "t", "i", "c", "s">>, confidence |-> 9, secondary_agents |-> JsonNull],
    [primary_agent |-> <<"a", "n", "a", "l", "y", "t", "i", "c", "s">>, confidence |-> 9,
     secondary_agents |-> << <<"P", "a", "y", " ", "C", "a", "l", "c", "u", "l", "a", "t", "i", "o", "n", " ", "A", "g", "e", "n", "t">> >>, context |-> "from the classifier"],
    [confidence |-> 8, context |-> "from the classifier"] }
RouteOutcomes == {[kind |-> "raise"]} \cup {[kind |-> "json", value |-> j] : j \in RouteJsonReplies}

\* agent_id = self.agent_ids.get(agent_type)
ExactIndexes(reg, t) == {i \in 1..Len(reg) : RegistryNameChars[reg[i].name] = t}

\* if agent_type in available_agent_type or available_agent_type in agent_type
AlternativeIndexes(reg, t) ==
    {i \in 1..Len(reg) : \/ Contains(RegistryNameChars[reg[i].name], t)
                         \/ Contains(t, RegistryNameChars[reg[i].name])}

\* if secondary_agent in self.agent_ids
SecondaryIndexes(reg, secondary_agents) ==
    {j \in 1..Len(secondary_agents) :
        \E i \in 1..Len(reg) : RegistryNameChars[reg[i].name] = secondary_agents[j]}
IdOf(reg, t) == reg[CHOOSE i \in 1..Len(reg) : RegistryNameChars[reg[i].name] = t].id

\* routing_info["context"] += f" (Fallback to {fallback_agent_type} used)"
WithFallbackNote(info, name) ==
    [info EXCEPT !.context = <<info.context, " (Fallback to {fallback_agent_type} used)", name>>]

\* the search with the secondary agents tried before the overlapping keys
ResolveAgentId_secondary_first(reg, info) ==
    LET t == info.primary_agent IN
    IF ExactIndexes(reg, t) # {}
    THEN [kind |-> "found", agent_id |-> reg[MinOf(ExactIndexes(reg, t))].id, routing_info |-> info]
    ELSE IF "secondary_agents" \in DOMAIN info /\ ~IsList(info.secondary_agents)
    THEN [kind |-> "raise", agent_id |-> 0, routing_info |-> info,
          exc |-> "'NoneType' object is not iterable"]
    ELSE IF "secondary_agents" \in DOMAIN info
            /\ SecondaryIndexes(reg, info.secondary_agents) # {}
    THEN [kind |-> "found",
          agent_id |-> IdOf(reg, info.secondary_agents[MinOf(SecondaryIndexes(reg, info.secondary_agents))]),
          routing_info |-> info]
    ELSE IF AlternativeIndexes(reg, t) # {}
    THEN [kind |-> "found", agent_id |-> reg[MinOf(AlternativeIndexes(reg, t))].id,
          routing_info |-> info]
    ELSE IF reg # <<>>
    THEN IF "context" \in DOMAIN info
         THEN [kind |-> "found", agent_id |-> reg[1].id,
               routing_info |-> WithFallbackNote(info, reg[1].name)]
         ELSE [kind |-> "raise", agent_id |-> 0, routing_info |-> info, exc |-> "'context'"]
    ELSE [kind |-> "none", agent_id |-> 0, routing_info |-> info]
\* lines 629-662: the agent id for routing_info, the statement that raises
\* (iterating a secondary_agents that is no list, reading a context that is not
\* there), or no id at all
ResolveAgentId(reg, info) ==
    LET t == info.primary_agent IN
    IF ExactIndexes(reg, t) # {}
    THEN [kind |-> "found", agent_id |-> reg[MinOf(ExactIndexes(reg, t))].id, routing_info |-> info]
    ELSE IF AlternativeIndexes(reg, t) # {}
    THEN [kind |-> "found", agent_id |-> reg[MinOf(AlternativeIndexes(reg, t))].id,
          routing_info |-> info]
    ELSE IF "secondary_agents" \in DOMAIN info /\ ~IsList(info.secondary_agents)
    THEN [kind |-> "raise", agent_id |-> 0, routing_info |-> info,
          exc |-> "'NoneType' object is not iterable"]
    ELSE IF "secondary_agents" \in DOMAIN info
            /\ SecondaryIndexes(reg, info.secondary_agents) # {}
    THEN [kind |-> "found",
          agent_id |-> IdOf(reg, info.secondary_agents[MinOf(SecondaryIndexes(reg, info.secondary_agents))]),
          routing_info |-> info]
    ELSE IF reg # <<>>
    THEN IF "context" \in DOMAIN info
         THEN [kind |-> "found", agent_id |-> reg[1].id,
               routing_info |-> WithFallbackNote(info, reg[1].name)]
         ELSE [kind |-> "raise", agent_id |-> 0, routing_info |-> info, exc |-> "'context'"]
    ELSE [kind |-> "none", agent_id |-> 0, routing_info |-> info]

\* return {"error": error_message} of lines 660-662 and of the except clause
NoAgentResponse(t) ==
    [error |-> ErrMsg("No agent found for type: {agent_type} and no fallbacks available", 0, "", t)]
RoutingErrorResponse(e) == [error |-> ErrMsg("Error routing request: {str(e)}", 0, "", e)]

\* what _run_agent returns for a thread it is given (SpecRun): the except
\* clause's dict, a terminal failure, the retry limit, no assistant message, a text
RunAgentResponses(tid, rid) ==
    {ExceptResponse("_run_agent", tid), TerminalFailureResponse(tid, rid, "failed"),
     MaxRetriesResponse(tid, rid), NoAssistantResponse(tid, rid),
     [result |-> "a", thread_id |-> tid, run_id |-> rid]}

\* response["routing_info"] = routing_info; response["agent_type"] = agent_type
Annotated(resp, info, t) ==
    [k \in DOMAIN resp \cup {"routing_info", "agent_type"} |->
        IF k = "routing_info" THEN info ELSE IF k = "agent_type" THEN t ELSE resp[k]]

RouteRoles == {None, "hr"}

InitRoute ==
    /\ RunAtRest /\ NormalizeAtRest /\ project_client = TRUE
    /\ agent_ids_file = [exists |-> FALSE, data |-> <<>>]
    /\ remote_agents = {}
    /\ next_agent = 0
    /\ dpc = "idle"
    /\ agent_ids = <<>> /\ loaded = <<>> /\ validated = {} /\ dcalls = <<>> /\ dresult = <<>>
    /\ deploys = 0
    /\ prev_result = <<>>
    /\ orch_agent_ids \in RouteRegistries
    /\ RouterAtRest
    /\ RouteAtRest
    /\ HandlersAtRest

\* route_request(query, role) is called; the query is the one analyze_query is
\* then called with
RouteRequest ==
    /\ rpc \in {"idle", "returned"}
    /\ apc = "idle"
    /\ Len(analyses) < MaxAnalyses
    /\ \E r \in RouteRoles : role_arg' = r
    /\ rpc' = "analyze"
    /\ route_base' = Len(analyses)
    /\ route_info' = NoRoutingInfo
    /\ agent_type' = <<>>
    /\ agent_id' = 0
    /\ route_calls' = <<>>
    /\ route_response' = NoResponse
    /\ UNCHANGED <<regVars, notRouteVars>>

\* routing_info = await self.orchestrator_agent.analyze_query(query)
RouteAnalyzeQuery ==
    /\ rpc = "analyze"
    /\ Len(analyses) = route_base
    /\ AnalyzeQueryFrom(RouteQueries)
RouteInvokeClassifier == rpc = "analyze" /\ InvokeClassifierWith(RouteOutcomes)
RouteAnalyzeReturned == rpc = "analyze" /\ AnalyzeReturned

\* lines 629-667: agent_type, the search for agent_id and its three ways out
ResolveAgent ==
    /\ rpc = "analyze"
    /\ apc = "idle"
    /\ Len(analyses) = route_base + 1
    /\ LET info == analyses[Len(analyses)].routing_info
           found == ResolveAgentId(orch_agent_ids, info) IN
       /\ agent_type' = info.primary_agent
       /\ agent_id' = found.agent_id
       /\ route_info' = found.routing_info
       /\ CASE found.kind = "found" -> /\ rpc' = "create_thread"
                                       /\ UNCHANGED route_response
            [] found.kind = "none" -> /\ rpc' = "returned"
                                      /\ route_response' = NoAgentResponse(info.primary_agent)
            [] found.kind = "raise" -> /\ rpc' = "returned"
                                       /\ route_response' = RoutingErrorResponse(found.exc)
    /\ UNCHANGED <<role_arg, route_base, route_calls, regVars, notRouteVars>>

\* thread = self.project_client.agents.create_thread(), which may raise
RouteCreateThread ==
    /\ rpc = "create_thread"
    /\ route_calls' = Append(route_calls, "create_thread")
    /\ \/ /\ rpc' = "run_agent"
          /\ UNCHANGED route_response
       \/ /\ rpc' = "returned"
          /\ route_response' = RoutingErrorResponse(ExcText)
    /\ UNCHANGED <<role_arg, route_base, route_info, agent_type, agent_id, regVars, notRouteVars>>

\* response = await self._run_agent(thread_id, agent_id, message_content) and
\* the two assignments to the response; the thread and the run of the n-th
\* call get the id n
RouteRunAgent ==
    /\ rpc = "run_agent"
    /\ route_calls' = Append(route_calls, "_run_agent")
    /\ \E resp \in RunAgentResponses(route_base + 1, route_base + 1) :
         route_response' = Annotated(resp, route_info, agent_type)
    /\ rpc' = "returned"
    /\ UNCHANGED <<role_arg, route_base, route_info, agent_type, agent_id, regVars, notRouteVars>>

NextRoute ==
    \/ RouteRequest
    \/ RouteAnalyzeQuery
    \/ RouteInvokeClassifier
    \/ RouteAnalyzeReturned
    \/ ResolveAgent
    \/ RouteCreateThread
    \/ RouteRunAgent

SpecRoute == InitRoute /\ [][NextRoute]_vars

\* ------------------------------------------------------ route_request: claims
\* C14: when route_request is called with an explicit role, analyze_query is
\* not invoked for that request and the agent id is resolved directly from the
\* given role.
C14_ExplicitRoleBypassesRouter ==
    (rpc \in {"create_thread", "run_agent", "returned"} /\ role_arg # None) =>
        Len(analyses) = route_base

\* C15: when analyze yields primary role P, route_request resolves the agent
\* id by the first rule that finds one, in this order: the registry entry keyed
\* exactly P; the first registry entry whose key contains P or is contained in
\* P; the first secondary agent that is a registry key; the first registry
\* entry of any role.  A later rule is applied only if every earlier rule found
\* nothing.
RouteDecision == analyses[route_base + 1].routing_info
KeyOf(i) == RegistryNameChars[orch_agent_ids[i].name]
RegistryIndexes == 1..Len(orch_agent_ids)
FirstOf(S) == CHOOSE i \in S : \A j \in S : i <= j
ByExactKey == {i \in RegistryIndexes : KeyOf(i) = RouteDecision.primary_agent}
ByOverlap ==
    {i \in RegistryIndexes : \/ Contains(KeyOf(i), RouteDecision.primary_agent)
                             \/ Contains(RouteDecision.primary_agent, KeyOf(i))}
SecondaryList ==
    IF "secondary_agents" \in DOMAIN RouteDecision /\ RouteDecision.secondary_agents # JsonNull
    THEN RouteDecision.secondary_agents ELSE <<>>
SecondaryThatIsKey == {j \in 1..Len(SecondaryList) : \E i \in RegistryIndexes : KeyOf(i) = SecondaryList[j]}
BySecondary == {i \in RegistryIndexes : SecondaryThatIsKey # {} /\ KeyOf(i) = SecondaryList[FirstOf(SecondaryThatIsKey)]}
RuleOrder == <<ByExactKey, ByOverlap, BySecondary, RegistryIndexes>>
Resolved == rpc \in {"create_thread", "run_agent", "returned"}
C16_ResolvesWheneverRegistryHoldsAnId ==
    (Resolved /\ orch_agent_ids # <<>>) =>
        /\ agent_id # 0
        /\ rpc = "returned" /\ "error" \in DOMAIN route_response
              => route_calls # <<>>

\* ================================= concurrent handlers on the shared cache
\* app.py runs Flask with threaded=True and every request thread drives its own
\* event loop, so the statements of analyze_query that follow the await
\* (self.query_cache[cache_key] = ...; self._manage_cache_size()) of two
\* requests interleave statement by statement on the one IntelligentOrchestratorAgent.

\* the keys of earlier queries "q001", "q002", ... and of the handlers' queries
DigitChars == <<"0", "1", "2", "3", "4", "5", "6", "7", "8", "9">>
KeyN(n) == <<"q", DigitChars[((n \div 100) % 10) + 1], DigitChars[((n \div 10) % 10) + 1],
             DigitChars[(n % 10) + 1]>>
StoredInfo ==
    [primary_agent |-> policy_extraction_agent, confidence |-> 9,
     secondary_agents |-> <<>>, context |-> "from the classifier"]
\* the cache after n distinct queries were analysed
CacheOf(n) == [i \in 1..n |-> [key |-> KeyN(i), value |-> StoredInfo]]
HandlerKey(h) == KeyN(cache_size_limit + h)

\* what a handler's step leaves alone: the locals of analyze_query calls that
\* are not in the step, and every other part
notHandlerVars == <<apc, query, cache_key, routing_info, invoked, analyses,
                    runVars, regVars, routeVars, otherVars, toolVars, normVars>>

\* self.query_cache.pop(key)
CacheRemove(cache, k) == SelectSeq(cache, LAMBDA e : e.key # k)

InitHandlers ==
    /\ RunAtRest /\ NormalizeAtRest /\ project_client = TRUE /\ RegistryAtRest /\ RouteAtRest
    /\ HandlersAtRest
    /\ \E n \in {cache_size_limit - 1, cache_size_limit} : query_cache = CacheOf(n)
    /\ apc = "idle" /\ query = <<>> /\ cache_key = <<>> /\ routing_info = NoRoutingInfo
    /\ invoked = FALSE /\ analyses = <<>>

\* self.query_cache[cache_key] = routing_info.copy()
HandlerStore(h) ==
    /\ hpc[h] = "idle"
    /\ query_cache' = CachePut(query_cache, HandlerKey(h), StoredInfo)
    /\ hpc' = [hpc EXCEPT ![h] = "manage"]
    /\ UNCHANGED <<first_key, remaining, removed, notHandlerVars>>

\* if len(self.query_cache) > self.cache_size_limit: items_to_remove = ...
HandlerCheckSize(h) ==
    /\ hpc[h] = "manage"
    /\ IF Len(query_cache) > cache_size_limit
       THEN /\ remaining' = [remaining EXCEPT ![h] = items_to_remove]
            /\ hpc' = [hpc EXCEPT ![h] = "next"]
       ELSE /\ hpc' = [hpc EXCEPT ![h] = "returned"]
            /\ UNCHANGED remaining
    /\ UNCHANGED <<query_cache, first_key, removed, notHandlerVars>>

\* for _ in range(items_to_remove): if self.query_cache: next(iter(self.query_cache))
HandlerNextKey(h) ==
    /\ hpc[h] = "next"
    /\ IF remaining[h] = 0
       THEN /\ hpc' = [hpc EXCEPT ![h] = "returned"]
            /\ UNCHANGED <<first_key, remaining>>
       ELSE IF query_cache = <<>>
       THEN /\ remaining' = [remaining EXCEPT ![h] = @ - 1]
            /\ UNCHANGED <<hpc, first_key>>
       ELSE /\ first_key' = [first_key EXCEPT ![h] = query_cache[1].key]
            /\ hpc' = [hpc EXCEPT ![h] = "pop"]
            /\ UNCHANGED remaining
    /\ UNCHANGED <<query_cache, removed, notHandlerVars>>

\* self.query_cache.pop(<the key>): KeyError when the key is no longer there;
\* the exception leaves _manage_cache_size and analyze_query's except clause
\* returns the error dict
HandlerPop(h) ==
    /\ hpc[h] = "pop"
    /\ IF first_key[h] \in CacheKeys(query_cache)
       THEN /\ query_cache' = CacheRemove(query_cache, first_key[h])
            /\ removed' = [removed EXCEPT ![h] = @ + 1]
            /\ remaining' = [remaining EXCEPT ![h] = @ - 1]
            /\ hpc' = [hpc EXCEPT ![h] = "next"]
       ELSE /\ hpc' = [hpc EXCEPT ![h] = "raised"]
            /\ UNCHANGED <<query_cache, removed, remaining>>
    /\ UNCHANGED <<first_key, notHandlerVars>>

NextHandlers ==
    \E h \in Handlers :
        \/ HandlerStore(h)
        \/ HandlerCheckSize(h)
        \/ HandlerNextKey(h)
        \/ HandlerPop(h)

SpecHandlers == InitHandlers /\ [][NextHandlers]_vars

\* C17: under concurrent analyze calls from several request handlers the
\* store-and-evict step on the shared query cache runs under mutual exclusion:
\* in no interleaving does the cache exceed its capacity once the calls have
\* returned, does one overflow remove more than 20% of capacity, or does
\* eviction fail because another handler changed the cache in between.
RECURSIVE SumOver(_, _)
SumOver(f, S) == IF S = {} THEN 0 ELSE LET x == CHOOSE y \in S : TRUE IN f[x] + SumOver(f, S \ {x})
C17_StoreAndEvictExclusive ==
    /\ (\A h \in Handlers : hpc[h] \in {"returned", "raised"}) => Len(query_cache) <= cache_size_limit
    /\ SumOver(removed, Handlers) <= items_to_remove
    /\ \A h \in Handlers : hpc[h] # "raised"

\* ============================================= two handlers that both deploy
\* The chat handler of app.py tests self.agent_ids and, finding it empty, runs
\* deploy_agents and assigns the result; request threads run at the same time.
\* The first handler takes the steps of SpecDeploy; the second one's whole
\* deployment happens between two of them.

\* if not _orchestrator.agent_ids: ... deploy_agents() (first handler): its
\* first request made the test in the initial state, where the registry is
\* empty; a later request makes it when it calls
HandlerInvokeDeploy == (deploys = 0 \/ orch_agent_ids = <<>>) /\ InvokeDeploy

\* if not _orchestrator.agent_ids (second handler)
OtherHandlerChecks ==
    /\ other_pc = "idle"
    /\ orch_agent_ids = <<>>
    /\ other_pc' = "deploying"
    /\ UNCHANGED <<other_result, regVars, runVars, routerVars, routeVars, handlerVars, toolVars, normVars>>

\* the second handler's deploy_agents with every remote call answering: load,
\* validate, list, create what is missing (created[role] as in Provision), save
OtherDeployment(listing, created) ==
    LET d0 == load_agent_ids(agent_ids_file)
        v == ValidatedIds(d0, {e.name : e \in {x \in Items(d0) : x.id \in RemoteIds}})
        found == Discover(v, listing)
    IN IF Len(found) = Len(agent_instructions)
       THEN [agent_ids |-> found, remote_agents |-> remote_agents, next_agent |-> next_agent]
       ELSE Provision(1, found, remote_agents, next_agent, <<>>, created)

\* _orchestrator.agent_ids = loop.run_until_complete(agent_definitions.deploy_agents())
OtherHandlerDeploys ==
    /\ other_pc = "deploying"
    /\ \E listing \in Listings(remote_agents) : \E created \in [Roles -> {"sdk", "fail"}] :
         LET r == OtherDeployment(listing, created) IN
         /\ r.next_agent <= MaxAgents
         /\ remote_agents' = r.remote_agents
         /\ next_agent' = r.next_agent
         /\ other_result' = r.agent_ids
         /\ IF FailedToDeployAny(r.agent_ids)
            THEN UNCHANGED <<agent_ids_file, orch_agent_ids>>
            ELSE /\ agent_ids_file' = save_agent_ids(agent_ids_file, r.agent_ids)
                 /\ orch_agent_ids' = r.agent_ids
    /\ other_pc' = "done"
    /\ UNCHANGED <<dpc, agent_ids, loaded, validated, dcalls, dresult, deploys, prev_result,
                   runVars, routerVars, routeVars, handlerVars, toolVars, normVars>>

NextTwoDeploy ==
    \/ HandlerInvokeDeploy
    \/ Validate
    \/ GetToken
    \/ ListAgents
    \/ GetTokenDeploy
    \/ ProvisionAgents
    \/ DeployReturned
    \/ DeployRaised
    \/ OtherHandlerChecks
    \/ OtherHandlerDeploys

SpecTwoDeploy == InitDeploy /\ [][NextTwoDeploy]_vars

\* C18: when two request handlers concurrently find the in-memory registry
\* empty and both run deployment, the check-deploy-persist sequence on the
\* registry is mutually exclusive: at most one remote agent is created per role
\* and both handlers end with the same role-to-id mapping.
AgentsNamed(r) == {a \in remote_agents : a.name = r}
OnlySdkCalls == \A i \in 1..Len(dcalls) : dcalls[i] \notin {"GET assistants", "POST assistants"}
C18_DeployExclusive ==
    (other_pc = "done" /\ dpc = "returned" /\ deploys = 1 /\ OnlySdkCalls) =>
        /\ \A r \in Roles : Cardinality(AgentsNamed(r)) <= 1
        /\ Len(other_result) = Len(agent_instructions) => Items(dresult) = Items(other_result)

\* ================================================ save_agent_ids / load_agent_ids
\* The two functions on their own: mappings of up to MaxEntries roles are saved
\* and the file is loaded, starting from no file, a file that does not parse,
\* or a file an earlier save wrote.
SavedIds == {1, 2}     \* two ids, so that a role's id can differ between two saves
Mappings ==
    UNION {{m \in [1..n -> {Entry(r, i) : r \in Roles, i \in SavedIds}] :
               \A i, j \in 1..n : m[i].name = m[j].name => i = j} : n \in 0..MaxEntries}

\* an empty file, and a file cut off in the middle of a write
UnparsableTexts == {<<>>, <<Punct("{"), Str("policy_extraction_agent"), Punct(":")>>}
InitialFiles ==
    {NoFile} \cup {[exists |-> TRUE, data |-> t] : t \in UnparsableTexts}
             \cup {save_agent_ids(NoFile, m) : m \in Mappings}

InitPersist ==
    /\ RunAtRest /\ NormalizeAtRest /\ project_client = TRUE /\ RouterAtRest /\ RouteAtRest /\ HandlersAtRest
    /\ agent_ids_file \in InitialFiles
    /\ remote_agents = {} /\ next_agent = 0 /\ dpc = "idle"
    /\ agent_ids = <<>> /\ loaded = <<>> /\ validated = {} /\ dcalls = <<>> /\ dresult = <<>>
    /\ deploys = 0 /\ prev_result = <<>> /\ orch_agent_ids = <<>>

\* self.save_agent_ids(agent_ids)
SaveAgentIds ==
    /\ Len(dcalls) < MaxFileOps
    /\ \E m \in Mappings :
         /\ agent_ids' = m
         /\ agent_ids_file' = save_agent_ids(agent_ids_file, m)
    /\ dcalls' = Append(dcalls, "save_agent_ids")
    /\ UNCHANGED <<remote_agents, next_agent, dpc, loaded, validated, dresult, deploys,
                   prev_result, orch_agent_ids, notRegVars>>

\* self.load_agent_ids()
LoadAgentIds ==
    /\ Len(dcalls) < MaxFileOps
    /\ loaded' = load_agent_ids(agent_ids_file)
    /\ dcalls' = Append(dcalls, "load_agent_ids")
    /\ UNCHANGED <<agent_ids_file, remote_agents, next_agent, dpc, agent_ids, validated,
                   dresult, deploys, prev_result, orch_agent_ids, notRegVars>>

NextPersist ==
    \/ SaveAgentIds
    \/ LoadAgentIds

SpecPersist == InitPersist /\ [][NextPersist]_vars

\* C19: save_agent_ids followed by load_agent_ids returns the saved mapping
\* for every non-empty mapping; saving the empty mapping removes the file
\* instead of writing {}, so the next load returns the empty mapping exactly as
\* when the file never existed or is unparsable.
LastCall == IF dcalls = <<>> THEN "" ELSE dcalls[Len(dcalls)]
LoadedAfterSave ==
    /\ Len(dcalls) >= 2
    /\ dcalls[Len(dcalls) - 1] = "save_agent_ids"
    /\ dcalls[Len(dcalls)] = "load_agent_ids"
C19_SaveLoadRoundTrip ==
    /\ (LoadedAfterSave /\ agent_ids # <<>>) => loaded = agent_ids
    /\ (LastCall = "save_agent_ids" /\ agent_ids = <<>>) => ~agent_ids_file.exists
    /\ (LoadedAfterSave /\ agent_ids = <<>>) => loaded = <<>>
    /\ (LastCall = "load_agent_ids"
        /\ (~agent_ids_file.exists \/ agent_ids_file.data \in UnparsableTexts)) => loaded = <<>>

\* a mapping of two roles came back from the file
C19_Witness ==
    /\ dcalls = <<"load_agent_ids", "save_agent_ids", "load_agent_ids">>
    /\ Len(agent_ids) = 2
    /\ loaded = agent_ids
    /\ agent_ids_file.exists

\* C20: in the validation step, whenever at least one persisted entry fails
\* remote validation (also when every entry fails) the reduced mapping is
\* persisted, an empty one by removing the file, before remote discovery
\* starts, so that no id that failed validation remains in the durable store.
ValidationJustEnded ==
    /\ dpc = "get_token"
    /\ loaded # <<>>
    /\ dcalls = GetAgentCalls(loaded)
FailedValidation == {e \in Items(loaded) : e.name \notin validated}
C20_ReducedMappingPersisted ==
    (ValidationJustEnded /\ FailedValidation # {}) =>
        /\ validated # {} => /\ agent_ids_file.exists
                             /\ json_load(agent_ids_file.data) = agent_ids
        /\ validated = {} => ~agent_ids_file.exists
        /\ agent_ids_file.exists =>
              Items(json_load(agent_ids_file.data)) \cap FailedValidation = {}

\* ======================================== registry: a file from earlier times
\* agent_ids.json is read as it is found: load_agent_ids takes any JSON object.
\* Here deploy_agents starts from a file that an earlier deployment left, with
\* the agents it names still on the service. One of the files names an agent
\* under a key that is not a configured role (route_request looks such keys up
\* by overlap with the role name).
OtherKey == "analytics_agent_v2"
EarlierMappings ==
    { <<>>,
      <<Entry("policy_extraction_agent", 1), Entry("pay_calculation_agent", 2),
        Entry("analytics_agent", 3)>>,
      <<Entry("policy_extraction_agent", 1), Entry("pay_calculation_agent", 2),
        Entry(OtherKey, 3)>>,
      <<Entry("policy_extraction_agent", 2)>> }
\* the agents the service has: the ones the file names and, for the file with
\* one role, an older agent of that role and an agent of a second role
EarlierAgents(m) ==
    IF Len(m) = 1
    THEN {[id |-> 1, name |-> "policy_extraction_agent"],
          [id |-> 2, name |-> "policy_extraction_agent"],
          [id |-> 3, name |-> "pay_calculation_agent"]}
    ELSE {[id |-> e.id, name |-> e.name] : e \in Items(m)}

InitEarlierFile ==
    /\ RunAtRest /\ NormalizeAtRest /\ project_client = TRUE /\ RouterAtRest /\ RouteAtRest /\ HandlersAtRest
    /\ \E m \in EarlierMappings :
         /\ agent_ids_file = save_agent_ids(NoFile, m)
         /\ remote_agents = EarlierAgents(m)
         /\ next_agent = IF m = <<>> THEN 0 ELSE 3
    /\ dpc = "idle"
    /\ agent_ids = <<>> /\ loaded = <<>> /\ validated = {} /\ dcalls = <<>> /\ dresult = <<>>
    /\ deploys = 0 /\ prev_result = <<>> /\ orch_agent_ids = <<>>

\* the first deploy_agents call of the process
FirstDeploy == deploys = 0 /\ InvokeDeploy

NextEarlierFile ==
    \/ FirstDeploy
    \/ Validate
    \/ GetToken
    \/ ListAgents
    \/ GetTokenDeploy
    \/ ProvisionAgents
    \/ DeployReturned
    \/ DeployRaised
    \/ RemoteDelete

SpecEarlierFile == InitEarlierFile /\ [][NextEarlierFile]_vars

\* C21: a deploy_agents call returns without listing the remote agents, or
\* without a createAgent call, only with an id for every configured role; as
\* many entries as there are roles, under other keys, are not enough.
ListCalls == {"list_agents", "GET assistants"}
MadeListCall == \E i \in 1..Len(dcalls) : dcalls[i] \in ListCalls
C21_EarlyReturnOnlyWhenComplete ==
    (dpc = "returned" /\ (~MadeListCall \/ ~MadeCreateCall)) => Roles \subseteq Keys(dresult)

\* C22: within one deploy_agents call the remote calls come in the order of the
\* stages (get_agent validations, then the listing, then createAgent), the
\* listing leaves every entry that passed validation as it is and adds entries
\* only for configured roles that have none, and the provisioning leaves every
\* earlier entry as it is and makes one createAgent call for each configured
\* role that has no entry after validation and listing, and for no other.
Stage(call) ==
    CASE call = "get_agent" -> 1
      [] call \in ListCalls -> 2
      [] call \in CreateCalls -> 3
      [] OTHER -> 0
StagesInOrder(log) ==
    \A i, j \in 1..Len(log) :
        (i < j /\ Stage(log[i]) # 0 /\ Stage(log[j]) # 0) => Stage(log[i]) <= Stage(log[j])
IsPrefix(d, e) == Len(d) <= Len(e) /\ SubSeq(e, 1, Len(d)) = d
Added(d, e) == {e[i].name : i \in (Len(d) + 1)..Len(e)}
CountOf(call, log) == Cardinality({i \in 1..Len(log) : log[i] = call})
C22_StagesFillOnlyMissing ==
    [][/\ StagesInOrder(dcalls')
       /\ dpc = "list_agents" =>
            /\ IsPrefix(agent_ids, agent_ids')
            /\ Added(agent_ids, agent_ids') \subseteq Roles \ Keys(agent_ids)
       /\ dpc = "provision" =>
            /\ IsPrefix(agent_ids, agent_ids')
            /\ Added(agent_ids, agent_ids') \subseteq Roles \ Keys(agent_ids)
            /\ CountOf("create_agent", dcalls') = Cardinality(Roles \ Keys(agent_ids))]_vars

\* a call that validated one role, passed over an older agent of that role in
\* the listing, found a second role there and created the third
C22_Witness ==
    /\ dpc = "returned"
    /\ validated = {"policy_extraction_agent"}
    /\ [id |-> 1, name |-> "policy_extraction_agent"] \in remote_agents
    /\ dresult = <<Entry("policy_extraction_agent", 2), Entry("pay_calculation_agent", 3),
                   Entry("analytics_agent", 4)>>
    /\ dcalls = <<"get_agent", "get_token", "list_agents", "get_token", "create_agent">>

\* C23: in the provisioning loop every configured role without an entry gets
\* its create_agent call; when that call fails the POST request for the same
\* role follows before the next role's create_agent; when both fail the role
\* stays without an entry and the roles after it are still tried.
MissingInOrder(d) == SelectSeq(agent_instructions, LAMBDA r : r \notin Keys(d))
\* the calls of one role, by what became of it
CallsFor(outcome) ==
    IF outcome = "sdk" THEN <<"create_agent">> ELSE <<"create_agent", "POST assistants">>
CallsForAll(roles, created) ==
    IF Len(roles) = 0 THEN <<>>
    ELSE IF Len(roles) = 1 THEN CallsFor(created[roles[1]])
    ELSE IF Len(roles) = 2 THEN CallsFor(created[roles[1]]) \o CallsFor(created[roles[2]])
    ELSE CallsFor(created[roles[1]]) \o CallsFor(created[roles[2]])
             \o CallsFor(created[roles[3]])
C23_FallbackThenNextRole ==
    [][dpc = "provision" =>
         \E created \in [Roles -> {"sdk", "api", "fail"}] :
            /\ dcalls' = dcalls \o CallsForAll(MissingInOrder(agent_ids), created)
            /\ Keys(agent_ids') = Keys(agent_ids) \cup
                   {r \in Roles \ Keys(agent_ids) : created[r] # "fail"}]_vars

\* the first role came by the POST request, the second failed on both paths,
\* the third was created by the SDK call
C23_Witness ==
    /\ dpc = "returned"
    /\ dcalls = <<"get_token", "list_agents", "get_token", "create_agent", "POST assistants",
                  "create_agent", "POST assistants", "create_agent">>
    /\ Keys(dresult) = {"policy_extraction_agent", "analytics_agent"}

\* ================================================= run executor: more claims
\* C24: in both variants the calls of one invocation come in the order
\* create_message, create_run, get_run ..., list_messages: create_run is called
\* only when create_message has just returned (the user's message is the last
\* of the thread), get_run only for a run create_run returned, list_messages
\* only right after a get_run that returned completed; create_message and
\* create_run are called at most once.
CreateRunCalls == {"create_run", "create_run tool_choice=none"}
RunStage(call) ==
    CASE call = "create_thread" -> 0
      [] call = "create_message" -> 1
      [] call \in CreateRunCalls -> 2
      [] call \in {"get_run", "list_run_steps"} -> 3
      [] OTHER -> 4
Called(ops) == {i \in 1..Len(calls) : calls[i] \in ops}
C24_CallsInOrder ==
    /\ \A i, j \in 1..Len(calls) : i < j => RunStage(calls[i]) <= RunStage(calls[j])
    /\ Cardinality(Called({"create_message"})) <= 1
    /\ Cardinality(Called(CreateRunCalls)) <= 1
    /\ \A i \in Called(CreateRunCalls) :
          /\ i > 1 /\ calls[i - 1] = "create_message"
          /\ \E k \in 1..Len(thread_msgs) : thread_msgs[k].role = "user"
    /\ (Len(calls) > 0 /\ calls[Len(calls)] \in CreateRunCalls) =>
          thread_msgs[Len(thread_msgs)].role = "user"
    /\ \A i \in Called({"get_run"}) :
          /\ Called(CreateRunCalls) # {} /\ run_id # 0
          /\ calls[i - 1] \in CreateRunCalls \cup {"get_run"}
    /\ \A i \in Called({"list_messages"}) :
          /\ calls[i - 1] = "get_run"
          /\ current_status = "completed"

C24_Witness ==
    /\ pc = "returned"
    /\ variant = "_run_agent_via_sdk"
    /\ calls = <<"create_thread", "create_message", "create_run", "get_run", "get_run",
                 "list_messages">>
    /\ sleeps = <<1>>
    /\ "result" \in DOMAIN response

\* C25: create_run is called with tool_choice "none" exactly when the
\* invocation's disable_tools argument is set, whatever earlier invocations
\* were called with, and the call changes nothing of the orchestrator (client,
\* agent ids, query cache), of the registry's file or of the agents of the
\* service.
C25_SuppressionForThisRunOnly ==
    [][pc = "create_run" =>
         /\ Len(created_runs') = Len(created_runs) + 1
         /\ LET sent == created_runs'[Len(created_runs')].run_params IN
            /\ disable_tools => ("tool_choice" \in DOMAIN sent /\ sent.tool_choice = "none")
            /\ ~disable_tools => "tool_choice" \notin DOMAIN sent
         /\ UNCHANGED <<project_client, orch_agent_ids, query_cache, agent_ids_file,
                        remote_agents, disable_tools>>]_vars

\* a run started with the tools suppressed, and after it a run on the same
\* thread started without
C25_Witness ==
    /\ Len(created_runs) = 2
    /\ created_runs[1].disable_tools
    /\ created_runs[1].run_params = [thread_id |-> 1, tool_choice |-> "none"]
    /\ ~created_runs[2].disable_tools
    /\ created_runs[2].run_params = [thread_id |-> 1]

\* C26: in one invocation no wait passed to asyncio.sleep is longer than 30,
\* the waits add up to at most 15 * 30 = 450, and to 331 = 1 + 2 + 4 + 8 + 16
\* + 10 * 30 when all 15 polls saw a status that is not terminal.
TotalWait == SumOver(sleeps, 1..Len(sleeps))
C26_WaitsBounded ==
    /\ \A i \in 1..Len(sleeps) : sleeps[i] <= 30
    /\ TotalWait <= 15 * 30
    /\ Len(sleeps) = 15 => TotalWait = 331

C26_Witness ==
    /\ pc = "returned"
    /\ variant = "_run_agent"
    /\ Len(sleeps) = 15
    /\ TotalWait = 331
    /\ sleeps[6] = 30

\* ===================================== query router: a cache that is nearly full
\* analyze_query calls one after the other on a router whose cache holds the
\* decisions of 99 or of 100 earlier queries.
InitNearlyFull ==
    /\ RunAtRest /\ NormalizeAtRest /\ project_client = TRUE /\ RegistryAtRest /\ RouteAtRest /\ HandlersAtRest
    /\ \E n \in {cache_size_limit - 1, cache_size_limit} : query_cache = CacheOf(n)
    /\ apc = "idle"
    /\ query = <<>>
    /\ cache_key = <<>>
    /\ routing_info = NoRoutingInfo
    /\ invoked = FALSE
    /\ analyses = <<>>

SpecNearlyFull == InitNearlyFull /\ [][NextRouter]_vars

\* C27: with analyze_query calls made one after the other, the cache holds at
\* most 100 entries whenever no call is in progress and whenever a call is
\* about to return.
C27_CapacityAfterReturn ==
    apc \in {"idle", "returned"} => Len(query_cache) <= 100

\* a call stored its decision as the 101st entry and returned with 81 entries
C27_Witness ==
    /\ apc = "idle"
    /\ Len(analyses) = 1
    /\ analyses[1].invoked
    /\ Len(query_cache) = 81
    /\ query_cache[81].key = CacheKeyOf[analyses[1].query]
    /\ query_cache[1].key = KeyN(21)

\* C28: an analyze call whose store finds the cache above its capacity of 100
\* removes exactly 20 entries before it ends, and the entry it stored stays in
\* the cache; a call removes none or 20, never another number.
HandlerDone(h) == hpc[h] \in {"returned", "raised"}
C28_EvictsTwentyKeepsNew ==
    \A h \in Handlers :
        HandlerDone(h) => /\ removed[h] \in {0, items_to_remove}
                          /\ HandlerKey(h) \in CacheKeys(query_cache)

\* C29 (as stated): every call that missed the cache has stored the decision it
\* returns under the query's cache key, whatever the classifier did, and a call
\* that repeats the query of the call before it does not invoke the classifier.
SameKeyAgain(i) == CacheKeyOf[analyses[i].query] = CacheKeyOf[analyses[i + 1].query]
Repeats == {i \in 1..(Len(analyses) - 1) : SameKeyAgain(i)}
StoredAsReturned ==
    /\ cache_key \in CacheKeys(query_cache)
    /\ CacheGet(query_cache, cache_key) = routing_info
C29_EveryMissStored ==
    /\ (apc = "returned" /\ invoked) => StoredAsReturned
    /\ \A i \in Repeats : ~analyses[i + 1].invoked

\* C29 (amended): a call that missed the cache and returns the classifier's
\* decision or the keyword fallback for unparsable output has stored it under
\* the query's cache key, and a call that repeats its query right after it does
\* not invoke the classifier; a call that returns the error fallback has
\* stored nothing, and the call that repeats its query invokes the classifier.
C29_StoredUnlessErrorFallback ==
    /\ (apc = "returned" /\ invoked) =>
          IF routing_info = ErrorRoutingInfo(query)
          THEN cache_key \notin CacheKeys(query_cache)
          ELSE StoredAsReturned
    /\ \A i \in Repeats :
          analyses[i + 1].invoked <=> ReturnedErrorFallback(analyses[i])

\* the keyword fallback for unparsable output was stored and served the repeat
C29_Witness ==
    /\ Len(analyses) = 2
    /\ analyses[1].query = analyses[2].query
    /\ analyses[1].invoked
    /\ "context" \in DOMAIN analyses[1].routing_info
    /\ analyses[1].routing_info.context = "Fallback routing used due to JSON parse error"
    /\ ~analyses[2].invoked
    /\ analyses[2].routing_info = analyses[1].routing_info

\* ============================================ _normalize_agent_name on its own
\* The function is applied to a name and then to its own result. The names
\* are the canonical ids with any of their underscores written as spaces, in
\* lower case, in upper case and with capital initials, and names that are no
\* such form.
UpperOf == [c \in Range(LowerLetters) |->
               UpperLetters[CHOOSE i \in DOMAIN LowerLetters : LowerLetters[i] = c]]
upper(str) == [i \in 1..Len(str) |-> IF str[i] \in Range(LowerLetters) THEN UpperOf[str[i]] ELSE str[i]]
\* capital letters at the start and after "_" or " "
title(str) ==
    [i \in 1..Len(str) |->
        IF str[i] \in Range(LowerLetters) /\ (i = 1 \/ str[i - 1] \in {"_", " "})
        THEN UpperOf[str[i]] ELSE str[i]]
Underscores(str) == {i \in 1..Len(str) : str[i] = "_"}
WithSpacesAt(str, S) == [i \in 1..Len(str) |-> IF i \in S THEN " " ELSE str[i]]
SurfaceForms(id) ==
    UNION {{f, upper(f), title(f)} : f \in {WithSpacesAt(id, S) : S \in SUBSET Underscores(id)}}
OtherNames ==
    { <<>>, JsonNull, billing_agent, upper(billing_agent), <<"h", "r">>,
      <<"a", "g", "e", "n", "t">>, <<"P", "a", "y">>, <<"a", "n", "a", "l", "y", "t", "i", "c", "s">>,
      <<"p", "o", "l", "i", "c", "y", " ", "a", "g", "e", "n", "t">>,
      <<"t", "h", "e", " ">> \o title(WithSpacesAt(analytics_agent, Underscores(analytics_agent))) }
GivenNames == UNION {SurfaceForms(id) : id \in KnownAgents} \cup OtherNames

InitNormalize ==
    /\ RunAtRest /\ project_client = TRUE /\ RegistryAtRest /\ RouterAtRest /\ RouteAtRest
    /\ HandlersAtRest
    /\ npc = "given"
    /\ given_name \in GivenNames
    /\ normalized_once = <<>>
    /\ normalized_twice = <<>>

\* self._normalize_agent_name(name)
Normalize ==
    /\ npc = "given"
    /\ normalized_once' = normalize_agent_name(given_name)
    /\ npc' = "once"
    /\ UNCHANGED <<given_name, normalized_twice, runVars, toolVars, regVars, routerVars,
                   routeVars, handlerVars, otherVars>>

\* self._normalize_agent_name(<that result>)
NormalizeAgain ==
    /\ npc = "once"
    /\ normalized_twice' = normalize_agent_name(normalized_once)
    /\ npc' = "twice"
    /\ UNCHANGED <<given_name, normalized_once, runVars, toolVars, regVars, routerVars,
                   routeVars, handlerVars, otherVars>>

NextNormalize ==
    \/ Normalize
    \/ NormalizeAgain

SpecNormalize == InitNormalize /\ [][NextNormalize]_vars

\* a name is a surface form of a canonical id: it is the id up to the case of
\* letters and up to spaces in the place of underscores
Underscored(str) == [i \in 1..Len(str) |-> IF str[i] = " " THEN "_" ELSE str[i]]
IsSurfaceFormOf(name, id) == Underscored(lower(name)) = id
\* the same with spaces for all underscores of the id or for none
IsAliasOf(name, id) ==
    lower(name) \in {id, WithSpacesAt(id, Underscores(id))}
Applied == npc \in {"once", "twice"}
IsName == given_name \notin {<<>>, JsonNull}

\* C30 (as stated): a canonical id is mapped to itself, a surface form of a
\* canonical id (other letter case, spaces for underscores) to that id, a name
\* that matches no alias to itself, and applying the function to its result
\* changes nothing.
C30_NormalizesSurfaceForms ==
    /\ Applied =>
         /\ given_name \in KnownAgents => normalized_once = given_name
         /\ \A id \in KnownAgents : IsSurfaceFormOf(given_name, id) => normalized_once = id
         /\ (IsName /\ ~OverlapsAlias(given_name)) => normalized_once = given_name
    /\ npc = "twice" => normalized_twice = normalized_once

\* C30 (amended): as stated for the forms that write all underscores of the id
\* as spaces or none; a form that writes only some of the underscores as
\* spaces matches no alias and is returned as it was given.
C30_NormalizesAliases ==
    /\ Applied =>
         /\ given_name \in KnownAgents => normalized_once = given_name
         /\ \A id \in KnownAgents : IsAliasOf(given_name, id) => normalized_once = id
         /\ \A id \in KnownAgents :
               (IsSurfaceFormOf(given_name, id) /\ ~IsAliasOf(given_name, id))
                   => normalized_once = given_name
         /\ (IsName /\ ~OverlapsAlias(given_name)) => normalized_once = given_name
    /\ npc = "twice" => normalized_twice = normalized_once

\* "PAY CALCULATION AGENT" became pay_calculation_agent and stayed so
C30_Witness ==
    /\ npc = "twice"
    /\ given_name = upper(WithSpacesAt(pay_calculation_agent, Underscores(pay_calculation_agent)))
    /\ normalized_once = pay_calculation_agent
    /\ normalized_twice = pay_calculation_agent

\* ------------------------------------------- query router: the confidence
\* dicts whose confidence is above 1, below 0, low but in range, as high as
\* usual, and absent (confidence in tenths)
ConfidenceJsonReplies == {
    [primary_agent |-> <<"a", "n", "a", "l", "y", "t", "i", "c", "s">>, confidence |-> 15,
     secondary_agents |-> <<>>, context |-> "from the classifier"],
    [primary_agent |-> <<"a", "n", "a", "l", "y", "t", "i", "c", "s">>, confidence |-> -2,
     secondary_agents |-> <<>>, context |-> "from the classifier"],
    [primary_agent |-> <<"a", "n", "a", "l", "y", "t", "i", "c", "s">>, confidence |-> 2,
     secondary_agents |-> <<>>, context |-> "from the classifier"],
    [primary_agent |-> <<"a", "n", "a", "l", "y", "t", "i", "c", "s">>, confidence |-> 9,
     secondary_agents |-> <<>>, context |-> "from the classifier"],
    [primary_agent |-> <<"a", "n", "a", "l", "y", "t", "i", "c", "s">>,
     secondary_agents |-> <<>>, context |-> "from the classifier"] }

InvokeConfidenceClassifier == InvokeClassifierWith(OutcomesWith(ConfidenceJsonReplies))
NextConfidence ==
    \/ AnalyzeRoutingQuery
    \/ InvokeConfidenceClassifier
    \/ AnalyzeReturned

SpecConfidence == InitRouter /\ [][NextConfidence]_vars

\* the decisions analyze_query has returned
Decisions == {analyses[i] : i \in DOMAIN analyses}
\* a decision built by the keyword fallback (lines 245-260 and 292-298), and one
\* taken from the classifier's JSON
ByKeywordFallback(d) ==
    d.routing_info \in
        {FallbackRoutingInfo(d.query, 4, "Fallback routing used due to missing JSON in response"),
         FallbackRoutingInfo(d.query, 4, "Fallback routing used due to JSON parse error"),
         ErrorRoutingInfo(d.query)}
FromClassifierOutput(d) ==
    /\ "context" \in DOMAIN d.routing_info
    /\ d.routing_info.context = "from the classifier"
HasConfidence(d) == "confidence" \in DOMAIN d.routing_info

\* C31: every decision analyze_query returns carries a numeric confidence
\* within [0,1] (0..10 tenths), whatever confidence the classifier's JSON
\* carried.
C31_ConfidenceInUnitInterval ==
    \A d \in Decisions : HasConfidence(d) /\ d.routing_info.confidence \in 0..10

ReturnedAfterDecision == rpc = "returned" /\ Len(analyses) = route_base + 1
\* the response has the two entries of lines 690-691
CarriesRoutingMetadata(resp, info, t) ==
    /\ "routing_info" \in DOMAIN resp /\ resp.routing_info = info
    /\ "agent_type" \in DOMAIN resp /\ resp.agent_type = t

\* C33: every response of route_request that follows a routing decision (a
\* successful result, a run error, the "no agent found" error, an error raised
\* while dispatching) carries the routing_info and the agent_type that were
\* used for it.
C33_EveryResponseCarriesMetadata ==
    ReturnedAfterDecision => CarriesRoutingMetadata(route_response, route_info, agent_type)

\* ------------------------------------------- run executor: termination
\* the coroutine's own steps: each remote call returns or raises and each
\* asyncio.sleep ends, so a step that can be taken is taken
RunStep ==
    \/ CreateThread
    \/ CreateMessage
    \/ CreateRun
    \/ Poll
    \/ MaxRetries
    \/ ListMessages
SpecRunFair == SpecRun /\ WF_vars(RunStep)

Running == pc \notin {"idle", "returned"}
\* the error texts of a run that has ended without a result
RunErrorTemplates ==
    ExceptionTemplates \cup
        {RemoteFailureTemplate, MaxRetriesTemplate,
         "No assistant messages found in thread or message format not recognized"}
\* the remote calls made after the last status fetch
CallsAfterLastFetch ==
    IF CallsOf("get_run") = {} THEN <<>>
    ELSE SubSeq(calls, (CHOOSE i \in CallsOf("get_run") : \A j \in CallsOf("get_run") : j <= i) + 1,
                Len(calls))
\* what _run_agent and _run_agent_via_sdk can return for a client that is there
TerminalOutcome ==
    \/ /\ DOMAIN response = {"result", "thread_id", "run_id"}
       /\ current_status = "completed"
       /\ CallsAfterLastFetch = <<"list_messages">>
    \/ /\ "error" \in DOMAIN response /\ "result" \notin DOMAIN response
       /\ response.error.template \in RunErrorTemplates
       /\ response.error.template = RemoteFailureTemplate
            => (current_status \in FailureStatuses /\ CallsAfterLastFetch = <<"list_run_steps">>)
       /\ response.error.template = MaxRetriesTemplate
            => (GetRunCalls = max_retries /\ CallsAfterLastFetch = <<>>)

\* C34: every invocation of run terminates: whatever statuses the service
\* reports, the run reaches exactly one terminal outcome (a result, or an error
\* for failed, cancelled, expired, max retries, extraction or transport) after
\* at most 15 status fetches, and once the outcome is there no remote call is
\* made for that run (the run-step listing precedes the failure's return).
C34_RunTerminates ==
    /\ [](GetRunCalls <= max_retries)
    /\ []((pc = "returned" /\ project_client) => TerminalOutcome)
    /\ [][pc = "returned" => (pc' = "idle" /\ calls' = <<>>)]_vars
    /\ Running ~> (pc = "returned")

\* fifteen fetches were made and the run ended with the retry limit
C34_Witness ==
    /\ pc = "returned" /\ GetRunCalls = max_retries
    /\ response.error.template = MaxRetriesTemplate

\* --------------------------------- registry: the orchestrator's mapping
\* C35: when the registry's deployment raises inside
\* AzureAgentOrchestrator.deploy_agents, the exception goes on to the caller
\* (no result) and self.agent_ids is what it was before the call; self.agent_ids
\* changes only to the mapping a deployment returned.
C35_RaiseKeepsMapping ==
    [][/\ dpc = "raised" =>
            (dpc' = "idle" /\ prev_result' = <<>> /\ orch_agent_ids' = orch_agent_ids)
       /\ orch_agent_ids' # orch_agent_ids =>
            (dpc = "returned" /\ dpc' = "idle" /\ orch_agent_ids' = dresult)]_vars

\* a deployment returned a mapping, the next one raised, the mapping is still there
C35_Witness ==
    /\ deploys = 2 /\ dpc = "idle"
    /\ prev_result = <<>>
    /\ orch_agent_ids # <<>>

\* ------------------------------------- run executor: the last status fetch
RunReturned == pc = "returned" /\ project_client
Successful == "result" \in DOMAIN response
ReportedMaxRetries ==
    "error" \in DOMAIN response /\ response.error.template = MaxRetriesTemplate
\* a wait is over: the next fetch follows unless it was the wait after the
\* fifteenth fetch; a run has ended: each wait was followed by a fetch, unless
\* the retry limit was reported after fifteen fetches and fifteen waits
FetchesAndWaits ==
    /\ Len(sleeps) = retry_count
    /\ GetRunCalls <= max_retries
    /\ pc = "poll" =>
         /\ GetRunCalls = Len(sleeps)
         /\ Len(sleeps) < max_retries => (ENABLED Poll /\ ~ENABLED MaxRetries)
         /\ Len(sleeps) = max_retries => (~ENABLED Poll /\ ENABLED MaxRetries)
    /\ pc = "list_messages" => GetRunCalls = Len(sleeps) + 1
    /\ (pc = "returned" /\ run_id # 0) =>
         GetRunCalls = (IF ReportedMaxRetries THEN Len(sleeps) ELSE Len(sleeps) + 1)

\* C36 (as stated): a run is reported successful if and only if one of its at
\* most 15 status fetches returns completed (the 15th included); every backoff
\* wait except the one after the 15th fetch is followed by a status fetch, and
\* a run that has not completed by the 15th fetch is reported as max retries
\* reached.
C36_SuccessIffCompletedFetch ==
    /\ pc \in {"poll", "list_messages", "returned"} => FetchesAndWaits
    /\ RunReturned =>
         /\ Successful <=> current_status = "completed"
         /\ ReportedMaxRetries <=>
               (GetRunCalls = max_retries /\ Len(sleeps) = max_retries /\ ~raised)

\* C36 (amended): a run is reported successful only if one of its at most 15
\* status fetches returns completed (the 15th included); after a completed
\* fetch it is reported successful when the listing succeeds and the newest
\* assistant message has a text block, and as an error when the listing raises
\* or no newest assistant message has one; the waits and the retry limit are as
\* stated.
C36_SuccessOnlyAfterCompletedFetch ==
    /\ pc \in {"poll", "list_messages", "returned"} => FetchesAndWaits
    /\ RunReturned =>
         /\ Successful => (current_status = "completed" /\ ~raised
                           /\ \E i \in NewestAssistantIndexes : HasText(thread_msgs[i]))
         /\ (/\ current_status = "completed" /\ ~raised
             /\ NewestAssistantIndexes # {}
             /\ \A i \in NewestAssistantIndexes : HasText(thread_msgs[i])) => Successful
         /\ (/\ current_status = "completed"
             /\ raised \/ \A i \in NewestAssistantIndexes : ~HasText(thread_msgs[i]))
               => ~Successful
         /\ ReportedMaxRetries <=>
               (GetRunCalls = max_retries /\ Len(sleeps) = max_retries /\ ~raised)

\* the fifteenth fetch returned completed and the run is reported successful
C36_Witness ==
    /\ RunReturned /\ Successful
    /\ GetRunCalls = max_retries /\ Len(sleeps) = max_retries - 1

\* ------------------------------------ run executor: a thread used again
\* the assistant messages the run of this invocation wrote
MessagesOfThisRun == {i \in AssistantIndexes : thread_msgs[i].run_id = run_id}

\* C37: the result _run_agent returns for a caller-supplied thread is (the
\* first text of) an assistant message produced by that run, never one left on
\* the thread by an earlier run.
C37_ResultIsOfThisRun ==
    (RunReturned /\ Successful /\ variant = "_run_agent") =>
        \E i \in MessagesOfThisRun :
            HasText(thread_msgs[i]) /\ response.result = FirstTextOf(thread_msgs[i])

\* --------------------------------- route_request: the agent_type it records
\* the registry entry keyed t holds the agent id the run is started with
NamesTheExecutingEntry(t) ==
    \E i \in RegistryIndexes : KeyOf(i) = t /\ orch_agent_ids[i].id = agent_id

\* C38: the agent_type that route_request puts into the Context block and
\* into its response names the role whose registry entry supplied the agent
\* id that executed the run, also when the id came from an overlapping key, a
\* secondary agent or the first registry entry.
C38_AgentTypeNamesExecutingRole ==
    /\ (Resolved /\ agent_id # 0) => NamesTheExecutingEntry(agent_type)
    /\ (rpc = "returned" /\ "agent_type" \in DOMAIN route_response)
          => NamesTheExecutingEntry(route_response.agent_type)

\* ------------------------------- concurrent handlers: one query, twice
\* two request threads are in analyze_query for queries with the same cache
\* key; the classifier gives each its own decision
SharedKey == KeyN(0)
DecisionOf(h) == [StoredInfo EXCEPT !.confidence = 10 - h]

InitSameKey ==
    /\ RunAtRest /\ NormalizeAtRest /\ project_client = TRUE /\ RegistryAtRest /\ RouteAtRest
    /\ HandlersAtRest
    /\ \E n \in {cache_size_limit - 1, cache_size_limit} : query_cache = CacheOf(n)
    /\ apc = "idle" /\ query = <<>> /\ cache_key = <<>> /\ routing_info = NoRoutingInfo
    /\ invoked = FALSE /\ analyses = <<>>

\* if cache_key in self.query_cache: return the copy; else go on to the
\* classifier (lines 209-223)
SameKeyLookup(h) ==
    /\ hpc[h] = "idle"
    /\ hpc' = [hpc EXCEPT ![h] = IF SharedKey \in CacheKeys(query_cache) THEN "hit" ELSE "invoke"]
    /\ UNCHANGED <<query_cache, first_key, remaining, removed, notHandlerVars>>

\* the classifier has answered: self.query_cache[cache_key] = routing_info.copy()
SameKeyStore(h) ==
    /\ hpc[h] = "invoke"
    /\ query_cache' = CachePut(query_cache, SharedKey, DecisionOf(h))
    /\ hpc' = [hpc EXCEPT ![h] = "manage"]
    /\ UNCHANGED <<first_key, remaining, removed, notHandlerVars>>

NextSameKey ==
    \E h \in Handlers :
        \/ SameKeyLookup(h)
        \/ SameKeyStore(h)
        \/ HandlerCheckSize(h)
        \/ HandlerNextKey(h)
        \/ HandlerPop(h)

SpecSameKey == InitSameKey /\ [][NextSameKey]_vars

\* both calls missed the cache and have ended
BothStoredAndEnded == \A h \in Handlers : hpc[h] \in {"returned", "raised"}
EntriesFor(k) == {i \in 1..Len(query_cache) : query_cache[i].key = k}
\* the cache has one entry for the shared key, and after a store it is the
\* storing call's decision
OneEntryOfLastStore ==
    /\ [](BothStoredAndEnded =>
            /\ Cardinality(EntriesFor(SharedKey)) = 1
            /\ \E h \in Handlers : CacheGet(query_cache, SharedKey) = DecisionOf(h))
    /\ [][\A h \in Handlers :
            IF hpc[h] = "invoke" /\ hpc'[h] = "manage"
            THEN CacheGet(query_cache', SharedKey) = DecisionOf(h)
            ELSE SharedKey \in CacheKeys(query_cache) =>
                    (/\ SharedKey \in CacheKeys(query_cache')
                     /\ \/ CacheGet(query_cache', SharedKey) = CacheGet(query_cache, SharedKey)
                        \/ \E g \in Handlers : hpc[g] = "invoke" /\ hpc'[g] = "manage")]_vars

\* C39: when two analyze calls for queries with the same cache key overlap
\* (both miss the cache before either stores), both invoke the classifier,
\* neither call fails, and afterwards the cache holds exactly one entry for
\* that key, equal to the decision of the call that stored last.
C39_SameKeyOverlap ==
    /\ [](BothStoredAndEnded => \A h \in Handlers : hpc[h] # "raised")
    /\ OneEntryOfLastStore

====
